---- MODULE Spec2Model ----
(***************************************************************************)
(* Plan-driven multi-agent step orchestration of Magentic-UI.              *)
(*                                                                         *)
(* The orchestrator walks a plan step by step: it dispatches the current   *)
(* step to its agent, runs ExecutionController.execute_step on the agent's *)
(* response (repeated-execution check, then the step validator), and on a  *)
(* positive result marks the step and increments current_step_idx in the   *)
(* one place that does so (_orchestrate_step_execution).                   *)
(*                                                                         *)
(* Text is modelled by the phrases it contains: `kw in text` of the Python *)
(* code is membership of the phrase in the set.  Phrases are ASCII names   *)
(* of the literal keywords of the source.                                  *)
(***************************************************************************)
EXTENDS Integers, Sequences, FiniteSets, TLC

(***************************************************************************)
(* Bounds of the model                                                     *)
(***************************************************************************)
NumSteps == 2

(***************************************************************************)
(* Program constants                                                       *)
(***************************************************************************)
MaxAttempts == 3
MinLength == 50

Callers == {"c1", "c2"}

StepIdx == 0 .. (NumSteps - 1)

NoResponse == [phrases |-> {"<none>"}, length |-> 0]

(***************************************************************************)
(* The plan.  Steps are PlanStep(title, details, agent_name); the details  *)
(* are the keywords _get_validator looks for.                              *)
(***************************************************************************)
ResearchStep == [agent_name |-> "web_surfer", title |-> "research", details |-> {"te720"}]
ImageStep == [agent_name |-> "image_generator", title |-> "image", details |-> {"zh_image"}]
MarkdownStep == [agent_name |-> "coder_agent", title |-> "markdown", details |-> {"markdown"}]
HtmlStep == [agent_name |-> "coder_agent", title |-> "html", details |-> {"html"}]

\* research, image, markdown, html: the 360-camera plan
CameraPlan == <<ResearchStep, ImageStep, MarkdownStep, HtmlStep>>

\* a plan whose first two steps carry the same agent and title
TwoResearchPlan == <<ResearchStep, ResearchStep, ImageStep, MarkdownStep>>

PlanPrefix(full) == [i \in StepIdx |-> full[i + 1]]

Plans == {PlanPrefix(CameraPlan), PlanPrefix(TwoResearchPlan)}

(***************************************************************************)
(* Agent responses                                                         *)
(***************************************************************************)
WebDone == [phrases |-> {"TASK_COMPLETED", "product"}, length |-> 120]
WebGenericDone == [phrases |-> {"let_me_help_you", "TASK_COMPLETED", "product"}, length |-> 35]
WebGeneric == [phrases |-> {"let_me_help_you"}, length |-> 120]
WebNoSignal == [phrases |-> {"product"}, length |-> 120]
WebEmpty == [phrases |-> {}, length |-> 120]

ImageDone == [phrases |-> {"image_generation_complete", "image"}, length |-> 120]
ImageFailed == [phrases |-> {"api_error"}, length |-> 120]
ImageGeneric == [phrases |-> {"let_me_help_you"}, length |-> 120]

DocDone == [phrases |-> {"document_creation_completed", "file_name"}, length |-> 120]
DocPlanning == [phrases |-> {"let_me_create"}, length |-> 120]
DocNoFile == [phrases |-> {"document_creation_completed"}, length |-> 120]

ResponsesOf(agent) ==
    CASE agent = "web_surfer" ->
            {WebDone, WebGenericDone, WebGeneric, WebNoSignal, WebEmpty}
      [] agent = "image_generator" -> {ImageDone, ImageFailed, ImageGeneric}
      [] OTHER -> {DocDone, DocPlanning, DocNoFile}

Has(response, keywords) == response.phrases \cap keywords # {}

(***************************************************************************)
(* Step validators                                                         *)
(***************************************************************************)
ExecutionResult(success, reason, action) ==
    [success |-> success, reason |-> reason, action |-> action]

WebSearchValidator(step_info, agent_response) ==
    LET completion_signals == {"TASK_COMPLETED", "TASK_COMPLETED_WITH_ERRORS",
                                "TASK_COMPLETED_VIA_ALTERNATIVE"}
        info_indicators == {"product", "camera", "spec", "function", "feature"}
        has_completion_signal == Has(agent_response, completion_signals)
        has_useful_info == Has(agent_response, info_indicators)
        generic_responses == {"i_understand_you_need", "let_me_help_you", "i_can_help_you"}
    IN  IF has_completion_signal /\ has_useful_info
        THEN ExecutionResult(TRUE, "web search completed", "none")
        ELSE IF Has(agent_response, generic_responses)
             THEN ExecutionResult(FALSE, "generic response", "retry_with_enhanced_instruction")
             ELSE ExecutionResult(FALSE, "no completion signal", "none")

ImageGenerationValidator(step_info, agent_response) ==
    LET completion_signals == {"image_generation_complete", "successfully_generated",
                                "generation_completed"}
        image_indicators == {".png", ".jpg", ".jpeg", "image"}
        has_completion_signal == Has(agent_response, completion_signals)
        has_image_reference == Has(agent_response, image_indicators)
    IN  IF has_completion_signal \/ has_image_reference
        THEN ExecutionResult(TRUE, "image generation completed", "none")
        ELSE ExecutionResult(FALSE, "image generation not completed", "none")

\* "must contain the file-save confirmation + the file name"
DocumentCreationValidator(step_info, agent_response) ==
    IF Has(agent_response, {"document_creation_completed"}) /\ Has(agent_response, {"file_name"})
    THEN ExecutionResult(TRUE, "document created", "none")
    ELSE ExecutionResult(FALSE, "document not created", "none")

\* the bodies of FormatConversionValidator and DefaultValidator are not part
\* of the design document: a completion signal is required
SignalOnlyValidator(step_info, agent_response) ==
    IF Has(agent_response, {"document_creation_completed", "TASK_COMPLETED"})
    THEN ExecutionResult(TRUE, "completed", "none")
    ELSE ExecutionResult(FALSE, "no completion signal", "none")

_get_validator(step_info) ==
    IF step_info.agent_name = "web_surfer" THEN "web_search"
    ELSE IF step_info.agent_name = "image_generator" THEN "image_generation"
    ELSE IF step_info.details \cap {"markdown", "zh_document"} # {} THEN "document_creation"
    ELSE IF step_info.details \cap {"html", "pdf"} # {} THEN "format_conversion"
    ELSE "default"

validate_completion(step_info, agent_response) ==
    LET validator == _get_validator(step_info)
    IN  CASE validator = "web_search" -> WebSearchValidator(step_info, agent_response)
          [] validator = "image_generation" -> ImageGenerationValidator(step_info, agent_response)
          [] validator = "document_creation" -> DocumentCreationValidator(step_info, agent_response)
          [] OTHER -> SignalOnlyValidator(step_info, agent_response)

(***************************************************************************)
(* ExecutionController.execute_step                                        *)
(***************************************************************************)
StepId(step_info) == <<step_info.agent_name, step_info.title>>

HistoryEntry(step_info, agent_response) ==
    [step_id |-> StepId(step_info), agent |-> step_info.agent_name, response |-> agent_response]

Occurrences(history, step_id, agent_response) ==
    Cardinality({k \in 1 .. Len(history) :
                    history[k].step_id = step_id /\ history[k].response = agent_response})

\* the response was already recorded for this step: with the entry of the
\* running call in the history, a second occurrence is a repeat
_is_repeated_execution(history, step_id, agent_response) ==
    Occurrences(history, step_id, agent_response) >= 2

\* validation before the repeated-execution check
execute_step_validate_first(history, attempts, step_info, agent_response) ==
    LET step_id == StepId(step_info)
        recorded == Append(history, HistoryEntry(step_info, agent_response))
        validation_result == validate_completion(step_info, agent_response)
    IN  IF validation_result.success
        THEN [history |-> recorded, attempts |-> attempts + 1, loop |-> FALSE,
              validated |-> TRUE, result |-> validation_result]
        ELSE IF _is_repeated_execution(recorded, step_id, agent_response)
             THEN [history |-> recorded, attempts |-> attempts, loop |-> TRUE,
                   validated |-> TRUE,
                   result |-> ExecutionResult(FALSE, "repeated execution", "continue_to_next")]
             ELSE [history |-> recorded, attempts |-> attempts + 1, loop |-> FALSE,
                   validated |-> TRUE, result |-> validation_result]

\* the repeated-execution check looks at the history before the running
\* call is recorded
execute_step_check_before_record(history, attempts, step_info, agent_response) ==
    LET step_id == StepId(step_info)
        recorded == Append(history, HistoryEntry(step_info, agent_response))
    IN  IF _is_repeated_execution(history, step_id, agent_response)
        THEN [history |-> recorded, attempts |-> attempts, loop |-> TRUE,
              validated |-> FALSE,
              result |-> ExecutionResult(FALSE, "repeated execution", "continue_to_next")]
        ELSE [history |-> recorded, attempts |-> attempts + 1, loop |-> FALSE,
              validated |-> TRUE,
              result |-> validate_completion(step_info, agent_response)]

\* a repeated execution reported as a success
execute_step_repeat_succeeds(history, attempts, step_info, agent_response) ==
    LET step_id == StepId(step_info)
        recorded == Append(history, HistoryEntry(step_info, agent_response))
    IN  IF _is_repeated_execution(recorded, step_id, agent_response)
        THEN [history |-> recorded, attempts |-> attempts, loop |-> TRUE,
              validated |-> FALSE,
              result |-> ExecutionResult(TRUE, "repeated execution", "continue_to_next")]
        ELSE [history |-> recorded, attempts |-> attempts + 1, loop |-> FALSE,
              validated |-> TRUE,
              result |-> validate_completion(step_info, agent_response)]

\* the attempt of the step is not counted
execute_step_attempts_not_counted(history, attempts, step_info, agent_response) ==
    LET step_id == StepId(step_info)
        recorded == Append(history, HistoryEntry(step_info, agent_response))
    IN  IF _is_repeated_execution(recorded, step_id, agent_response)
        THEN [history |-> recorded, attempts |-> attempts, loop |-> TRUE,
              validated |-> FALSE,
              result |-> ExecutionResult(FALSE, "repeated execution", "continue_to_next")]
        ELSE [history |-> recorded, attempts |-> attempts, loop |-> FALSE,
              validated |-> TRUE,
              result |-> validate_completion(step_info, agent_response)]

\* a repeated execution is sent back for another try
execute_step_repeat_retries(history, attempts, step_info, agent_response) ==
    LET step_id == StepId(step_info)
        recorded == Append(history, HistoryEntry(step_info, agent_response))
    IN  IF _is_repeated_execution(recorded, step_id, agent_response)
        THEN [history |-> recorded, attempts |-> attempts, loop |-> TRUE,
              validated |-> FALSE,
              result |-> ExecutionResult(FALSE, "repeated execution", "retry_with_different_approach")]
        ELSE [history |-> recorded, attempts |-> attempts + 1, loop |-> FALSE,
              validated |-> TRUE,
              result |-> validate_completion(step_info, agent_response)]

execute_step(history, attempts, step_info, agent_response) ==
    LET step_id == StepId(step_info)
        \* 1. record the execution
        recorded == Append(history, HistoryEntry(step_info, agent_response))
    IN  \* 2. repeated-execution check
        IF _is_repeated_execution(recorded, step_id, agent_response)
        THEN [history |-> recorded, attempts |-> attempts, loop |-> TRUE,
              validated |-> FALSE,
              result |-> ExecutionResult(FALSE, "repeated execution", "continue_to_next")]
        \* 3. step validation, 4. attempt count
        ELSE [history |-> recorded, attempts |-> attempts + 1, loop |-> FALSE,
              validated |-> TRUE,
              result |-> validate_completion(step_info, agent_response)]

(***************************************************************************)
(* Boundary configuration (task_boundaries)                                *)
(***************************************************************************)
\* the entry is read without the fallback: a type without an entry is a
\* KeyError, no settings come back
task_boundaries_without_fallback(task_type) ==
    CASE task_type = "web_research" ->
            [max_actions |-> 4, time_limit |-> 180, autonomous_mode |-> TRUE]
      [] task_type = "image_generation" ->
            [max_actions |-> 2, time_limit |-> 60, autonomous_mode |-> TRUE]
      [] task_type = "document_creation" ->
            [max_actions |-> 3, time_limit |-> 120, autonomous_mode |-> TRUE]
      [] task_type = "code_execution" ->
            [max_actions |-> 5, time_limit |-> 300, autonomous_mode |-> FALSE]
      [] task_type = "default" ->
            [max_actions |-> 3, time_limit |-> 150, autonomous_mode |-> TRUE]
      [] OTHER ->
            [max_actions |-> 0, time_limit |-> 0, autonomous_mode |-> FALSE]

task_boundaries(task_type) ==
    CASE task_type = "web_research" ->
            [max_actions |-> 4, time_limit |-> 180, autonomous_mode |-> TRUE]
      [] task_type = "image_generation" ->
            [max_actions |-> 2, time_limit |-> 60, autonomous_mode |-> TRUE]
      [] task_type = "document_creation" ->
            [max_actions |-> 3, time_limit |-> 120, autonomous_mode |-> TRUE]
      [] task_type = "code_execution" ->
            [max_actions |-> 5, time_limit |-> 300, autonomous_mode |-> FALSE]
      [] OTHER ->
            [max_actions |-> 3, time_limit |-> 150, autonomous_mode |-> TRUE]

_identify_task_type(step_info) ==
    IF step_info.agent_name = "web_surfer" THEN "web_research"
    ELSE IF step_info.agent_name = "image_generator" THEN "image_generation"
    ELSE IF step_info.details \cap {"markdown", "zh_document"} # {} THEN "document_creation"
    ELSE "default"

\* the type of the step is not looked up: every step gets the default entry
setup_boundaries_default(step_info) == task_boundaries("default")

setup_boundaries(step_info) == task_boundaries(_identify_task_type(step_info))

\* the responses received for the current step reached the action limit
boundary_exceeded(response_count, limits) == response_count >= limits.max_actions

\* the task types looked up: the entries of task_boundaries and the step
\* categories that have no entry
TaskTypes == {"web_research", "image_generation", "document_creation", "code_execution",
              "default", "format_conversion", "file_operation"}

NoSettings == [max_actions |-> 0, time_limit |-> 0, autonomous_mode |-> FALSE]

NoBoundary == [task_type |-> "none", step_index |-> -1, settings |-> NoSettings]

\* a monitor starts with the settings it enforces and nothing counted
BoundaryMonitor(settings) == [settings |-> settings, actions |-> 0]

NoMonitor == [settings |-> NoSettings, actions |-> -1]

(***************************************************************************)
(* The completion check of the orchestrator, _is_step_truly_complete, with *)
(* the agent check and the relevance check in front of the content check   *)
(***************************************************************************)
Agents == {"web_surfer", "image_generator", "coder_agent"}

StepKinds == {ResearchStep, ImageStep, MarkdownStep, HtmlStep}

\* what a response handed to the check may contain
Vocabulary ==
    {"TASK_COMPLETED", "product", "visit", "image_generation_complete", "image",
     "document_creation_completed", "file_name", "html"}

CheckedResponses == {[phrases |-> ph, length |-> 120] : ph \in SUBSET Vocabulary}

\* the keywords of a step type, with the signals whose text contains one
step_keywords(step_type) ==
    CASE step_type = "html" -> {"html", "format", "layout", "css"}
      [] step_type = "pdf" -> {"pdf", "output", "export", "final"}
      [] step_type = "markdown" -> {"markdown", ".md", "document", "document_creation_completed"}
      [] step_type = "image" -> {"image", "generate", "image_generation_complete",
                                 "successfully_generated", "generation_completed"}
      [] step_type = "research" -> {"search", "visit"}

StepTypeOrder == <<"html", "pdf", "markdown", "image", "research">>

\* the keywords the step title contains
WordsIn(step_title) == IF step_title = "research" THEN {"search"} ELSE {step_title}

\* the first step type with a keyword in the title decides: the response
\* must contain a keyword of that type; a title of no type passes
_is_response_relevant_to_step(agent_response, step_title) ==
    LET matching == {k \in 1 .. Len(StepTypeOrder) :
                        step_keywords(StepTypeOrder[k]) \cap WordsIn(step_title) # {}}
    IN  IF matching = {}
        THEN TRUE
        ELSE LET first == CHOOSE k \in matching : \A j \in matching : k <= j
             IN  Has(agent_response, step_keywords(StepTypeOrder[first]))

\* the content check the two checks were put in front of
_original_step_check(step_info, agent_response) ==
    validate_completion(step_info, agent_response).success

\* actual_agent is optional: "None" when the caller does not pass it
_is_step_truly_complete(step_info, agent_response, actual_agent) ==
    LET expected_agent == step_info.agent_name
    IN  IF actual_agent # "None" /\ actual_agent # expected_agent
        THEN FALSE
        ELSE IF ~_is_response_relevant_to_step(agent_response, step_info.title)
        THEN FALSE
        ELSE _original_step_check(step_info, agent_response)

NotValidated == ExecutionResult(FALSE, "none", "none")

NoCheck ==
    [step |-> ResearchStep, response |-> NoResponse, origin |-> "none",
     actual_agent |-> "None", done |-> FALSE, complete |-> FALSE,
     validation |-> NotValidated]

\* a response of one of the agents, to be checked for one of the steps, with
\* or without the agent passed to the check
CheckInputs ==
    {[step |-> step_info, response |-> agent_response, origin |-> origin,
      actual_agent |-> IF passed THEN origin ELSE "None", done |-> FALSE,
      complete |-> FALSE, validation |-> NotValidated] :
        step_info \in StepKinds, agent_response \in CheckedResponses, origin \in Agents,
        passed \in BOOLEAN}

(***************************************************************************)
(* Loop detection by the number of responses of the current step           *)
(***************************************************************************)
LoopWindow == 5

\* progress: for every response of the current step, whether it brought
\* anything new; attempt_from: the position of the first response of the
\* current attempt
NoWindow == [progress |-> << >>, attempt_from |-> 1, count |-> 0, loop |-> FALSE]

(***************************************************************************)
(* AgentStateBus: the outputs of the agents, kept under the key            *)
(* f"{agent_name}_{step_idx}".  A key is modelled by the parts split('_')  *)
(* cuts it into.                                                           *)
(***************************************************************************)
SystemAgents == {"web_surfer", "image_generator", "coder_agent", "file_surfer"}

NameParts(agent_name) ==
    CASE agent_name = "web_surfer" -> <<"web", "surfer">>
      [] agent_name = "image_generator" -> <<"image", "generator">>
      [] agent_name = "coder_agent" -> <<"coder", "agent">>
      [] agent_name = "file_surfer" -> <<"file", "surfer">>

Outputs == {"research_notes", "image_file"}

MaxRegistered == 3

Digits == <<"0", "1", "2", "3", "4", "5", "6", "7", "8", "9">>

\* str(n) of a step index
str(n) == Digits[n + 1]

\* int(text) raises ValueError unless the text is a number
IsNumber(text) == \E n \in 1 .. Len(Digits) : Digits[n] = text

int(text) == (CHOOSE n \in 1 .. Len(Digits) : Digits[n] = text) - 1

OutputKey(agent_name, step_idx) == NameParts(agent_name) \o <<str(step_idx)>>

\* an entry of agent_outputs: key and output; step_idx is the index the
\* output was registered for
register_output(agent_outputs, agent_name, step_idx, output) ==
    LET key == OutputKey(agent_name, step_idx)
    IN  {e \in agent_outputs : e.key # key}
        \cup {[key |-> key, output |-> output, step_idx |-> step_idx]}

\* {k: v for k, v in agent_outputs.items() if int(k.split('_')[1]) < current_step}
get_previous_outputs(agent_outputs, current_step) ==
    IF \E e \in agent_outputs : ~IsNumber(e.key[2])
    THEN [raised |-> TRUE, outputs |-> {}]
    ELSE [raised |-> FALSE,
          outputs |-> {e \in agent_outputs : int(e.key[2]) < current_step}]

NotReturned == [called |-> FALSE, current_step |-> 0, raised |-> FALSE, outputs |-> {}]

NoBus == [agent_outputs |-> {}, registered |-> 0, returned |-> NotReturned]

(***************************************************************************)
(* IntelligentContextManager.get_relevant_context.  A snapshot entry is    *)
(* [step, size]; the content of a context is the sequence of the entries   *)
(* selected for it.                                                        *)
(***************************************************************************)
Budgets == {1, 2, 3}

EntrySizes == {1, 2}

\* the snapshot entries of the steps before the target step
_collect_all_context(entries, step_index) == {e \in entries : e.step < step_index}

\* relevance of an entry for the target step: the nearer step scores higher
score_relevance(e, step_index) == NumSteps - (step_index - e.step)

RECURSIVE Ranked(_, _)
\* the entries in non-increasing order of their score
Ranked(all_context, step_index) ==
    IF all_context = {}
    THEN << >>
    ELSE LET top == CHOOSE e \in all_context :
                        \A f \in all_context :
                            score_relevance(f, step_index) <= score_relevance(e, step_index)
         IN  <<top>> \o Ranked(all_context \ {top}, step_index)

RECURSIVE TotalSize(_)
TotalSize(content) ==
    IF content = << >> THEN 0 ELSE Head(content).size + TotalSize(Tail(content))

RECURSIVE TakeWithin(_, _)
\* the entries are taken in order until the next one does not fit
TakeWithin(ranked, max_tokens) ==
    IF ranked = << >> \/ Head(ranked).size > max_tokens
    THEN << >>
    ELSE <<Head(ranked)>> \o TakeWithin(Tail(ranked), max_tokens - Head(ranked).size)

_select_top_relevant(all_context, step_index, max_tokens) ==
    TakeWithin(Ranked(all_context, step_index), max_tokens)

NotCached == [present |-> FALSE, content |-> << >>, prior |-> {}]

\* the cache key is made of the step alone
_generate_cache_key(step_index) == step_index

\* a cached context of the step is returned as it is; otherwise the context
\* is selected and cached.  relevance_score divides by the number of scored
\* entries, which raises when there is none.
get_relevant_context(cache, entries, step_index, max_tokens) ==
    LET cache_key == _generate_cache_key(step_index)
        all_context == _collect_all_context(entries, step_index)
        selected_context == _select_top_relevant(all_context, step_index, max_tokens)
    IN  IF cache[cache_key].present
        THEN [cache |-> cache, raised |-> FALSE, cached |-> TRUE,
              content |-> cache[cache_key].content, prior |-> cache[cache_key].prior]
        ELSE IF all_context = {}
        THEN [cache |-> cache, raised |-> TRUE, cached |-> FALSE, content |-> << >>,
              prior |-> all_context]
        ELSE [cache |-> [cache EXCEPT ![cache_key] =
                            [present |-> TRUE, content |-> selected_context,
                             prior |-> all_context]],
              raised |-> FALSE, cached |-> FALSE, content |-> selected_context,
              prior |-> all_context]

NoContextReturned ==
    [called |-> FALSE, step_index |-> 0, max_tokens |-> 0, raised |-> FALSE,
     cached |-> FALSE, content |-> << >>, prior |-> {}]

NewContextManager ==
    [entries |-> {}, cache |-> [i \in StepIdx |-> NotCached], returned |-> NoContextReturned]

(***************************************************************************)
(* BackgroundTaskIndicator: the background tasks shown for the runs prop   *)
(***************************************************************************)
RunIds == {"1", "2"}

RunStatuses == {"active", "awaiting_input", "paused", "complete", "error"}

Runs == [id : RunIds, status : RunStatuses]

\* the values of the runs prop: lists of runs with different ids
RunLists ==
    {<< >>} \cup {<<r>> : r \in Runs}
    \cup {<<r[1], r[2]>> : r \in {q \in Runs \X Runs : q[1].id # q[2].id}}

\* parseInt(run.id)
parseInt(text) == int(text)

\* the task text is left out: an active run gets the text of no keyword
getProgressInfo(run) ==
    CASE run.status = "awaiting_input" -> "awaiting user input"
      [] run.status = "paused" -> "task paused"
      [] run.status = "active" -> "executing"
      [] OTHER -> "unknown status"

IsActiveTask(run) == run.status \in {"active", "awaiting_input", "paused"}

\* paused runs are not taken for background tasks
detectBackgroundTasks_without_paused(runs) ==
    LET activeTasks == SelectSeq(runs, LAMBDA run : run.status \in {"active", "awaiting_input"})
    IN  [k \in 1 .. Len(activeTasks) |->
            [runId |-> parseInt(activeTasks[k].id), status |-> activeTasks[k].status,
             progressInfo |-> getProgressInfo(activeTasks[k])]]

\* runs.filter(...).map(run => ({runId, status, progressInfo, ...}))
detectBackgroundTasks(runs) ==
    LET activeTasks == SelectSeq(runs, IsActiveTask)
    IN  [k \in 1 .. Len(activeTasks) |->
            [runId |-> parseInt(activeTasks[k].id), status |-> activeTasks[k].status,
             progressInfo |-> getProgressInfo(activeTasks[k])]]

\* what the component renders: null when there is no background task
Render(backgroundTasks) == IF Len(backgroundTasks) = 0 THEN "null" ELSE "indicator"

\* mounted with no runs, the effect of the first render still to run
NewIndicator ==
    [runs |-> << >>, effect_pending |-> TRUE, interval |-> FALSE, backgroundTasks |-> << >>]

(***************************************************************************)
(* BackgroundTaskIndicator with health checks: detectBackgroundTasks is    *)
(* async and awaits runAPI.getRunHealth for every active run in turn       *)
(***************************************************************************)
MaxPasses == 2

CheckedRunStatuses == {"active", "complete"}

CheckedRunLists == {runs \in RunLists : \A k \in 1 .. Len(runs) : runs[k].status \in CheckedRunStatuses}

Connected ==
    [is_reconnectable |-> FALSE, has_active_manager |-> TRUE,
     has_websocket_connection |-> TRUE, can_reconnect |-> FALSE]

Reconnectable ==
    [is_reconnectable |-> TRUE, has_active_manager |-> TRUE,
     has_websocket_connection |-> FALSE, can_reconnect |-> TRUE]

\* getRunHealth throws, or returns the health data of the run
HealthOutcomes ==
    {[ok |-> FALSE, data |-> Connected], [ok |-> TRUE, data |-> Connected],
     [ok |-> TRUE, data |-> Reconnectable]}

\* the run whose health check failed is left out
enhanceTask_drops_failed(enhancedTasks, run, health) ==
    IF health.ok
    THEN Append(enhancedTasks,
                [runId |-> parseInt(run.id), status |-> run.status,
                 progressInfo |-> getProgressInfo(run),
                 isReconnectable |-> health.data.is_reconnectable,
                 hasActiveManager |-> health.data.has_active_manager,
                 hasWebSocketConnection |-> health.data.has_websocket_connection,
                 canReconnect |-> health.data.can_reconnect])
    ELSE enhancedTasks

\* the body of the loop over the active runs, try and catch
enhanceTask(enhancedTasks, run, health) ==
    IF health.ok
    THEN Append(enhancedTasks,
                [runId |-> parseInt(run.id), status |-> run.status,
                 progressInfo |-> getProgressInfo(run),
                 isReconnectable |-> health.data.is_reconnectable,
                 hasActiveManager |-> health.data.has_active_manager,
                 hasWebSocketConnection |-> health.data.has_websocket_connection,
                 canReconnect |-> health.data.can_reconnect])
    ELSE Append(enhancedTasks,
                [runId |-> parseInt(run.id), status |-> run.status,
                 progressInfo |-> getProgressInfo(run),
                 isReconnectable |-> FALSE, hasActiveManager |-> FALSE,
                 hasWebSocketConnection |-> FALSE, canReconnect |-> FALSE])

\* a detection pass: the runs of its render, the runs it has gone through
\* and what their health checks gave
NewPass(runs) == [runs |-> runs, enhancedTasks |-> << >>, checks |-> << >>, at |-> 1]

\* set_by: the active runs and the health checks of the pass that set the
\* list displayed
NewEnhancedIndicator ==
    [runs |-> << >>, effect_pending |-> TRUE, interval |-> FALSE, passes |-> {},
     backgroundTasks |-> << >>,
     set_by |-> [activeTasks |-> << >>, checks |-> << >>]]

(***************************************************************************)
(* handleManualReconnect and the reconnectingTasks set                     *)
(***************************************************************************)
MaxTimers == 2

TaskIds == {1, 2, 3}

\* setReconnectingTasks(prev => new Set([...prev, taskId]))
addReconnecting(prev, taskId) == prev \cup {taskId}

\* the set is returned as it was
deleteReconnecting_keeps(prev, taskId) == prev

\* newSet.delete(taskId)
deleteReconnecting(prev, taskId) == prev \ {taskId}

NoEvent == [op |-> "none", taskId |-> 0]

\* timers: the timeouts set and not yet run, per task; last: what ran last
NothingReconnecting ==
    [reconnectingTasks |-> {}, timers |-> [id \in TaskIds |-> 0], last |-> NoEvent]

(***************************************************************************)
(* FileManager: the file list, the statistics and the loading flag         *)
(***************************************************************************)
MaxRequests == 2

RequestKinds == {"files", "stats", "package", "mark"}

\* a fetch ends with an ok response, a response that is not ok, or throws
FetchOutcomes == {"ok", "not_ok", "thrown"}

ReportOnly == <<"report.md">>
ReportAndChart == <<"report.md", "chart.png">>

\* the body of an ok response of the file list: data.files or no such field
Listings ==
    {[has_files |-> FALSE, files |-> << >>],
     [has_files |-> TRUE, files |-> ReportOnly],
     [has_files |-> TRUE, files |-> ReportAndChart]}

NoStats == "null"
SessionStats == "stats"

\* a failed request empties the list
filesAfter_cleared_on_failure(files, outcome, data) ==
    IF outcome = "ok"
    THEN IF data.has_files THEN data.files ELSE << >>
    ELSE << >>

\* loadFiles after its fetch: setFiles(data.files || []) on an ok response
filesAfter(files, outcome, data) ==
    IF outcome = "ok"
    THEN IF data.has_files THEN data.files ELSE << >>
    ELSE files

\* loadStats after its fetch: setStats(data) on an ok response
statsAfter(stats, outcome) == IF outcome = "ok" THEN SessionStats ELSE stats

NoFetch == [kind |-> "none", outcome |-> "none"]

\* requests: the fetches in flight of each kind; last: the fetch that ended last
NewFileManager ==
    [files |-> << >>, stats |-> NoStats, loading |-> FALSE,
     requests |-> [kind \in RequestKinds |-> 0], last |-> NoFetch]

\* loadFiles up to its fetch
loadFiles(fm) ==
    [fm EXCEPT !.loading = TRUE, !.requests["files"] = @ + 1]

\* loadStats up to its fetch
loadStats(fm) ==
    [fm EXCEPT !.requests["stats"] = @ + 1]

(***************************************************************************)
(* SmartAgentAllocator.allocate_agent.  combined_text is the lower-cased   *)
(* title and details; the keyword 'CG' is upper case and the text is not.  *)
(***************************************************************************)
agent_capabilities(agent_name) ==
    CASE agent_name = "web_surfer" ->
            [primary |-> {"zh_website_visit", "zh_online_search", "zh_information_collection"},
             keywords |-> {"zh_visit", "zh_search", "zh_browse", "zh_website", "te720.com"}]
      [] agent_name = "image_generator" ->
            [primary |-> {"zh_image_generation", "zh_visual_creation", "zh_ai_drawing"},
             keywords |-> {"zh_generate", "zh_create", "zh_draw", "zh_image", "zh_picture",
                           "CG", "zh_design"}]
      [] OTHER ->
            [primary |-> {"zh_document_processing", "zh_format_conversion", "zh_code_execution"},
             keywords |-> {"markdown", "html", "pdf", "zh_document", "zh_convert",
                           "zh_programming"}]

AgentOrder == <<"web_surfer", "image_generator", "coder_agent">>

allocate_agent(step_title, step_details) ==
    LET combined_text == step_title \cup step_details
        score(agent_name) ==
            2 * Cardinality(agent_capabilities(agent_name).keywords \cap combined_text)
            + 3 * Cardinality(agent_capabilities(agent_name).primary \cap combined_text)
        \* max() keeps the first agent with the highest score
        best == CHOOSE k \in 1 .. 3 :
                    /\ \A m \in 1 .. 3 : score(AgentOrder[m]) <= score(AgentOrder[k])
                    /\ \A m \in 1 .. (k - 1) : score(AgentOrder[m]) < score(AgentOrder[k])
    IN  IF /\ combined_text \cap {"zh_generate", "zh_create", "zh_draw", "zh_image", "CG"} # {}
           /\ combined_text \cap {"zh_image", "image"} # {}
        THEN "image_generator"
        ELSE IF combined_text \cap {"zh_visit", "zh_search", "te720", "zh_website"} # {}
        THEN "web_surfer"
        ELSE IF combined_text \cap {"markdown", "html", "pdf", "zh_convert"} # {}
        THEN "coder_agent"
        ELSE IF score(AgentOrder[best]) > 0 THEN AgentOrder[best] ELSE "coder_agent"

\* words a lower-cased step title / step details can contain
TitleWords == {"generate", "image", "zh_generate", "zh_image"}
DetailWords == {"generate", "image", "zh_website", "pdf", "zh_document", "zh_design", "cg"}

(***************************************************************************)
(* State                                                                   *)
(***************************************************************************)
VARIABLES
    plan,                               \* the steps of the active plan
    current_step_idx,                   \* index of the step being executed
    step_execution_status,              \* step index -> execution state
    step_attempts,                      \* step id -> attempts counted by execute_step
    execution_history,                  \* entries recorded by execute_step
    current_step_agent_response_count,  \* responses received for the current step
    step_evidence,                      \* what _mark_step_completed / skip recorded
    global_context,                     \* step index -> outcome kept for later steps
    should_start_next_step,             \* flag for the main loop
    pc, given,                          \* the callers of the step execution
    last_return,                        \* what the last call returned
    last_eval,                          \* the last run of execute_step
    step_text, allocated_agent,         \* input and output of allocate_agent
    sessions, controllers,              \* the plans run side by side, each with
                                        \* its state and its ExecutionController
    boundary, monitors,                 \* the last setup_boundaries call and the
                                        \* monitors of the boundary controller
    checked,                            \* the last completion check on its own
    window,                             \* the responses the loop detection counted
    bus,                                \* the AgentStateBus
    context_manager,                    \* the IntelligentContextManager
    indicator,                          \* the BackgroundTaskIndicator
    enhanced_indicator,                 \* the BackgroundTaskIndicator with health checks
    reconnect,                          \* its reconnect buttons
    file_manager                        \* the FileManager

progress == <<current_step_idx, step_execution_status, step_attempts, execution_history,
              current_step_agent_response_count, step_evidence, global_context,
              should_start_next_step>>

callers == <<pc, given, last_return>>

allocation == <<step_text, allocated_agent>>

host == <<sessions, controllers>>

components == <<bus, context_manager, indicator, enhanced_indicator, reconnect, file_manager>>

units == <<boundary, monitors, checked, window, components>>

\* everything but the components
core == <<plan, progress, callers, last_eval, allocation, host, boundary, monitors, checked,
          window>>

vars == <<plan, progress, callers, last_eval, allocation, host, units>>

AllStepIds == {StepId(ResearchStep), StepId(ImageStep), StepId(MarkdownStep), StepId(HtmlStep)}

NoEvidence == [response |-> NoResponse, dispatched_for |-> -1, completion_type |-> "none",
               attempt |-> 0, reason |-> "none"]

NoContext == [agent |-> "none", response |-> NoResponse]

NoReturn == [step |-> -1, action |-> "none", noop_calls |-> 0]

NoText == [title |-> {}, details |-> {}]

NoEval == [step |-> -1, dispatched_for |-> -1, response |-> NoResponse, loop |-> FALSE,
           validated |-> FALSE, approved |-> FALSE, outcome |-> "none"]

(***************************************************************************)
(* Plans run side by side: every plan has its own state and its own        *)
(* ExecutionController, whose __init__ creates the history and the attempt *)
(* counts of that instance                                                 *)
(***************************************************************************)
PlanIds == {"A", "B"}

NewState(p) ==
    [plan |-> p,
     current_step_idx |-> 0,
     step_execution_status |-> [i \in StepIdx |-> "not_started"],
     current_step_agent_response_count |-> 0,
     step_evidence |-> [i \in StepIdx |-> NoEvidence],
     global_context |-> [i \in StepIdx |-> NoContext],
     should_start_next_step |-> TRUE]

NewController ==
    [execution_history |-> << >>, step_attempts |-> [id \in AllStepIds |-> 0]]

\* one controller serves every plan
execution_controller_shared(p) == "A"

\* the ExecutionController of plan p: its own instance
execution_controller_of(p) == p

\* no plan runs beside the active one
NoOtherPlans ==
    /\ sessions = [p \in PlanIds |-> NewState(PlanPrefix(CameraPlan))]
    /\ controllers = [k \in PlanIds |-> NewController]

\* no boundaries were set up, no response was counted on its own
NoMonitors ==
    /\ boundary = NoBoundary
    /\ monitors = [i \in StepIdx |-> NoMonitor]
    /\ window = NoWindow

\* nothing is handed to the completion check on its own
NothingChecked == checked = NoCheck

\* the components are as constructed
NoComponents ==
    /\ bus = NoBus
    /\ context_manager = NewContextManager
    /\ indicator = NewIndicator
    /\ enhanced_indicator = NewEnhancedIndicator
    /\ reconnect = NothingReconnecting
    /\ file_manager = NewFileManager

Init ==
    /\ plan \in Plans
    /\ current_step_idx = 0
    /\ step_execution_status = [i \in StepIdx |-> "not_started"]
    /\ step_attempts = [id \in AllStepIds |-> 0]
    /\ execution_history = << >>
    /\ current_step_agent_response_count = 0
    /\ step_evidence = [i \in StepIdx |-> NoEvidence]
    /\ global_context = [i \in StepIdx |-> NoContext]
    /\ should_start_next_step = TRUE
    /\ pc = [c \in Callers |-> "idle"]
    /\ given = [c \in Callers |-> 0]
    /\ last_return = NoReturn
    /\ last_eval = NoEval
    /\ step_text = NoText
    /\ allocated_agent = "none"
    /\ NoOtherPlans
    /\ NoMonitors
    /\ NoComponents
    /\ NothingChecked

(***************************************************************************)
(* _orchestrate_step_execution: what a positive completion check does      *)
(***************************************************************************)
RECURSIVE reuse_response(_, _, _)
reuse_response(p, idx, agent_response) ==
    IF idx \in DOMAIN p /\ validate_completion(p[idx], agent_response).success
    THEN {idx} \cup reuse_response(p, idx + 1, agent_response)
    ELSE {}

\* the recursive call that re-evaluates the following steps on the response
\* of the step just completed
advance_recursive(p, idx, agent_response) ==
    {idx} \cup reuse_response(p, idx + 1, agent_response)

\* the steps marked completed by one run whose completion check passed at
\* idx: the index is incremented once and the run returns
advance_after_completion(p, idx, agent_response) == {idx}

_mark_step_completed(evidence, steps, agent_response, dispatched_for, completion_type) ==
    [j \in StepIdx |->
        IF j \in steps
        THEN [response |-> agent_response, dispatched_for |-> dispatched_for,
              completion_type |-> completion_type, attempt |-> 0, reason |-> "none"]
        ELSE evidence[j]]

\* the outcome is written over every entry up to the completed step
_update_global_context_overwrites(context, actual_agent, steps, agent_response) ==
    [j \in StepIdx |->
        IF \E k \in steps : j <= k THEN [agent |-> actual_agent, response |-> agent_response]
        ELSE context[j]]

_update_global_context(context, actual_agent, steps, agent_response) ==
    [j \in StepIdx |->
        IF j \in steps THEN [agent |-> actual_agent, response |-> agent_response]
        ELSE context[j]]

\* skip_current_step leaves the status untouched
skip_current_step_keeps_status(status, idx) == status

skip_current_step(status, idx) == [status EXCEPT ![idx] = "skipped"]

\* the state of one plan's execution, as one value
ThisSession ==
    [plan |-> plan,
     current_step_idx |-> current_step_idx,
     step_execution_status |-> step_execution_status,
     step_attempts |-> step_attempts,
     execution_history |-> execution_history,
     current_step_agent_response_count |-> current_step_agent_response_count,
     step_evidence |-> step_evidence,
     global_context |-> global_context,
     should_start_next_step |-> should_start_next_step]

\* the variables take the values of session s
Becomes(s) ==
    /\ current_step_idx' = s.current_step_idx
    /\ step_execution_status' = s.step_execution_status
    /\ step_attempts' = s.step_attempts
    /\ execution_history' = s.execution_history
    /\ current_step_agent_response_count' = s.current_step_agent_response_count
    /\ step_evidence' = s.step_evidence
    /\ global_context' = s.global_context
    /\ should_start_next_step' = s.should_start_next_step

(***************************************************************************)
(* Main loop: start the step the index points at                           *)
(***************************************************************************)
can_start_next_step(s) ==
    /\ s.should_start_next_step
    /\ s.current_step_idx < NumSteps
    /\ s.step_execution_status[s.current_step_idx] = "not_started"

start_next_step(s) ==
    [s EXCEPT !.step_execution_status = [@ EXCEPT ![s.current_step_idx] = "in_progress"],
              !.should_start_next_step = FALSE,
              !.current_step_agent_response_count = 0]

StartNextStep ==
    /\ can_start_next_step(ThisSession)
    /\ Becomes(start_next_step(ThisSession))
    /\ UNCHANGED <<plan, callers, last_eval, allocation, host, units>>

(***************************************************************************)
(* A caller of the step execution                                          *)
(***************************************************************************)
\* the guard is dropped: every caller acts on the step it was given
StepNeverStale(g) == FALSE

\* the step the caller was given is no longer the current step in progress
StepNoLongerCurrent(g) ==
    \/ current_step_idx # g
    \/ step_execution_status[g] # "in_progress"

NoOpResult(g) == IF current_step_idx > g THEN "Advance" ELSE "EscalateToHuman"

ReturnNoOp(c, g) ==
    /\ pc' = [pc EXCEPT ![c] = "idle"]
    /\ given' = [given EXCEPT ![c] = 0]
    /\ last_return' =
          [step |-> g, action |-> NoOpResult(g),
           noop_calls |-> IF last_return.noop_calls >= 1 /\ last_return.step = g
                          THEN 2 ELSE 1]
    /\ UNCHANGED <<plan, progress, last_eval, allocation, host, units>>

\* entry of the step execution with the step the caller was given: return
\* at once when that step was already advanced, otherwise dispatch the
\* instruction to the step's agent and wait for the response
Call(c) ==
    /\ pc[c] = "idle"
    /\ \E g \in 0 .. current_step_idx :
          /\ g < NumSteps
          /\ step_execution_status[g] # "not_started"
          /\ IF StepNoLongerCurrent(g)
             THEN ReturnNoOp(c, g)
             ELSE /\ pc' = [pc EXCEPT ![c] = "awaiting"]
                  /\ given' = [given EXCEPT ![c] = g]
                  /\ UNCHANGED <<plan, progress, last_return, last_eval, allocation, host, units>>

Return(c, action) ==
    /\ pc' = [pc EXCEPT ![c] = "idle"]
    /\ given' = [given EXCEPT ![c] = 0]
    /\ last_return' = [step |-> given[c], action |-> action, noop_calls |-> 0]
    /\ UNCHANGED <<plan, allocation, host, units>>

\* completion check passed at idx: context, mark, increment, hand over to the
\* main loop
complete_and_advance(s, idx, agent_response) ==
    LET done == advance_after_completion(s.plan, idx, agent_response)
    IN  [s EXCEPT
           !.global_context = _update_global_context(
                                  @, s.plan[idx].agent_name, done, agent_response),
           !.step_evidence = _mark_step_completed(@, done, agent_response, idx, "normal"),
           !.step_execution_status = [j \in StepIdx |-> IF j \in done THEN "completed" ELSE @[j]],
           !.current_step_idx = @ + Cardinality(done),
           !.should_start_next_step = TRUE]

\* the step is completed without the validator's approval, on what it has
force_complete_current_step(s, idx, agent_response) ==
    [s EXCEPT
       !.global_context = _update_global_context(
                              @, s.plan[idx].agent_name, {idx}, agent_response),
       !.step_evidence = _mark_step_completed(@, {idx}, agent_response, idx, "forced"),
       !.step_execution_status = [@ EXCEPT ![idx] = "completed"],
       !.current_step_idx = @ + 1,
       !.should_start_next_step = TRUE]

\* "skip this step", action continue_to_next
skip_and_continue(s, idx, agent_response) ==
    [s EXCEPT
       !.step_execution_status = skip_current_step(@, idx),
       !.step_evidence = _mark_step_completed(@, {idx}, agent_response, idx, "skipped"),
       !.current_step_idx = @ + 1,
       !.should_start_next_step = TRUE]

\* the first rejection already finds no attempt left
attempts_exhausted_at_once(attempts) == attempts >= 1

\* "each agent has at most 3 attempts": no attempt is left for the step
attempts_exhausted(attempts) == attempts >= MaxAttempts

\* what is returned for a step that has failed is a matter of policy
FailurePolicies == {"EscalateToHuman", "AbortPlan"}

\* the step is set to failed and nothing is kept of why
fail_current_step_bare(s, idx, agent_response, attempt, reason) ==
    [s EXCEPT !.step_execution_status = [@ EXCEPT ![idx] = "failed"]]

\* the step has failed: its record keeps the trail of the failure, which
\* step, which attempt, why the last response was rejected
fail_current_step(s, idx, agent_response, attempt, reason) ==
    [s EXCEPT
       !.step_execution_status = [@ EXCEPT ![idx] = "failed"],
       !.step_evidence = [@ EXCEPT ![idx] =
            [response |-> agent_response, dispatched_for |-> idx,
             completion_type |-> "failed", attempt |-> attempt, reason |-> reason]]]

\* what the step execution does with the response collected for step idx
process_agent_response(s, idx, agent_response, policy) ==
    LET step_info == s.plan[idx]
        step_id == StepId(step_info)
        ex == execute_step(s.execution_history, s.step_attempts[step_id],
                           step_info, agent_response)
        count == s.current_step_agent_response_count + 1
        limits == setup_boundaries(step_info)
        recorded == [s EXCEPT !.execution_history = ex.history,
                              !.step_attempts = [@ EXCEPT ![step_id] = ex.attempts],
                              !.current_step_agent_response_count = count]
        result(session, action, outcome) ==
            [session |-> session, action |-> action,
             eval |-> [step |-> idx, dispatched_for |-> idx, response |-> agent_response,
                       loop |-> ex.loop, validated |-> ex.validated,
                       approved |-> ex.validated /\ ex.result.success,
                       outcome |-> outcome]]
    IN  IF ex.result.success
        THEN result(complete_and_advance(recorded, idx, agent_response),
                    "Advance", "completed")
        ELSE IF ex.result.action = "continue_to_next"
        THEN \* repeated execution: the step is skipped
             result(skip_and_continue(recorded, idx, agent_response), "Advance", "skipped")
        ELSE IF attempts_exhausted(ex.attempts)
        THEN \* rejected and no attempt left: the step has failed
             result(fail_current_step(recorded, idx, agent_response, ex.attempts,
                                      ex.result.reason),
                    policy, "failed")
        ELSE IF boundary_exceeded(count, limits)
        THEN \* action limit reached: the step is force-completed
             result(force_complete_current_step(recorded, idx, agent_response),
                    "Advance", "forced")
        ELSE result(recorded, "RetryStep", "retry")

\* the agent's response arrives and is evaluated
Evaluate(c) ==
    /\ pc[c] = "awaiting"
    /\ IF StepNoLongerCurrent(given[c])
       THEN ReturnNoOp(c, given[c])
       ELSE \E agent_response \in ResponsesOf(plan[given[c]].agent_name),
               policy \in FailurePolicies :
              LET r == process_agent_response(ThisSession, given[c], agent_response, policy)
              IN  /\ Becomes(r.session)
                  /\ last_eval' = r.eval
                  /\ Return(c, r.action)

Next ==
    \/ StartNextStep
    \/ \E c \in Callers : Call(c)
    \/ \E c \in Callers : Evaluate(c)

Spec == Init /\ [][Next]_vars

(***************************************************************************)
(* Single flow: one caller drives the plan, as the workflow driver loop     *)
(* does                                                                    *)
(***************************************************************************)
InitFlow ==
    /\ plan \in Plans
    /\ current_step_idx = 0
    /\ step_execution_status = [i \in StepIdx |-> "not_started"]
    /\ step_attempts = [id \in AllStepIds |-> 0]
    /\ execution_history = << >>
    /\ current_step_agent_response_count = 0
    /\ step_evidence = [i \in StepIdx |-> NoEvidence]
    /\ global_context = [i \in StepIdx |-> NoContext]
    /\ should_start_next_step = TRUE
    /\ pc = [c \in Callers |-> IF c = "c1" THEN "idle" ELSE "absent"]
    /\ given = [c \in Callers |-> 0]
    /\ last_return = NoReturn
    /\ last_eval = NoEval
    /\ step_text = NoText
    /\ allocated_agent = "none"
    /\ NoOtherPlans
    /\ NoMonitors
    /\ NoComponents
    /\ NothingChecked

SpecFlow == InitFlow /\ [][Next]_vars

\* the driver dispatches the step the main loop started
Dispatch(c) == Call(c) /\ pc'[c] = "awaiting"

\* the driver loop keeps running: the main loop starts the step it can
\* start, the driver dispatches it, and the worker it waits for responds
\* the driver loop, which walks the plan in order and keeps running: the
\* main loop starts the step it can start, the driver dispatches it, and
\* the worker it waits for responds
NextDriver ==
    \/ StartNextStep
    \/ Dispatch("c1")
    \/ Evaluate("c1")

SpecFlowFair ==
    /\ InitFlow
    /\ [][NextDriver]_vars
    /\ WF_vars(StartNextStep)
    /\ WF_vars(Dispatch("c1"))
    /\ WF_vars(Evaluate("c1"))

(***************************************************************************)
(* Completion signals: the workers close their responses with the signals  *)
(* of the signal protocol, web_surfer with the step signal                 *)
(***************************************************************************)
\* "current step completed: enough product information was collected"
WebStepDone == [phrases |-> {"current_step_completed", "product"}, length |-> 120]

SignalResponses(agent) ==
    CASE agent = "web_surfer" -> {WebStepDone, WebDone, WebNoSignal}
      [] agent = "image_generator" -> {ImageDone, ImageFailed}
      [] OTHER -> {DocDone, DocPlanning}

\* the response of a worker that follows the signal protocol arrives and is
\* evaluated
EvaluateSignal(c) ==
    /\ pc[c] = "awaiting"
    /\ IF StepNoLongerCurrent(given[c])
       THEN ReturnNoOp(c, given[c])
       ELSE \E agent_response \in SignalResponses(plan[given[c]].agent_name),
               policy \in FailurePolicies :
              LET r == process_agent_response(ThisSession, given[c], agent_response, policy)
              IN  /\ Becomes(r.session)
                  /\ last_eval' = r.eval
                  /\ Return(c, r.action)

NextSignals ==
    \/ StartNextStep
    \/ Dispatch("c1")
    \/ EvaluateSignal("c1")

SpecSignals == InitFlow /\ [][NextSignals]_vars

(***************************************************************************)
(* Interruptions of the call in flight: cancellation of the dispatch and   *)
(* expiry of the step's time budget                                        *)
(***************************************************************************)
CancellationNote == [phrases |-> {"cancelled"}, length |-> 0]

TimeBudgetNote == [phrases |-> {"time_budget_expired"}, length |-> 0]

\* the cancelled call completes the step on its way out
on_cancellation_completes(s, idx) ==
    [session |-> force_complete_current_step(s, idx, CancellationNote), action |-> "Cancelled"]

\* the cancellation is noted in the evidence of the step, which stays as it is
on_cancellation(s, idx) ==
    [session |-> [s EXCEPT !.step_evidence = _mark_step_completed(
                                @, {idx}, CancellationNote, idx, "cancelled")],
     action |-> "Cancelled"]

\* the expiry is treated as an error of the step
on_time_budget_expired_fails(s, idx) ==
    [session |-> [s EXCEPT !.step_execution_status = [@ EXCEPT ![idx] = "failed"],
                           !.step_evidence = _mark_step_completed(
                                @, {idx}, TimeBudgetNote, idx, "failed")],
     action |-> "EscalateToHuman"]

\* the expiry is a boundary condition: the step is force-completed on what it has
on_time_budget_expired(s, idx) ==
    [session |-> force_complete_current_step(s, idx, TimeBudgetNote), action |-> "Advance"]

\* the dispatch of caller c is cancelled while the worker is in flight: the
\* worker call ends with it and no response of it is collected
Cancel(c) ==
    /\ pc[c] = "awaiting"
    /\ ~StepNoLongerCurrent(given[c])
    /\ LET r == on_cancellation(ThisSession, given[c])
       IN  /\ Becomes(r.session)
           /\ Return(c, r.action)
    /\ UNCHANGED last_eval

\* the time budget of the step expires while the worker is in flight
Expire(c) ==
    /\ pc[c] = "awaiting"
    /\ ~StepNoLongerCurrent(given[c])
    /\ LET r == on_time_budget_expired(ThisSession, given[c])
       IN  /\ Becomes(r.session)
           /\ Return(c, r.action)
    /\ last_eval' = [step |-> given[c], dispatched_for |-> given[c],
                     response |-> TimeBudgetNote, loop |-> FALSE, validated |-> FALSE,
                     approved |-> FALSE, outcome |-> "expired"]

NextInterrupt ==
    \/ Next
    \/ \E c \in Callers : Cancel(c)
    \/ \E c \in Callers : Expire(c)

SpecInterrupt == InitFlow /\ [][NextInterrupt]_vars

(***************************************************************************)
(* Two plans run side by side, each single-flow                            *)
(***************************************************************************)
\* the state of plan p with the history and attempts of its controller
SessionOf(p) ==
    LET st == sessions[p]
        ctl == controllers[execution_controller_of(p)]
    IN  [plan |-> st.plan,
         current_step_idx |-> st.current_step_idx,
         step_execution_status |-> st.step_execution_status,
         step_attempts |-> ctl.step_attempts,
         execution_history |-> ctl.execution_history,
         current_step_agent_response_count |-> st.current_step_agent_response_count,
         step_evidence |-> st.step_evidence,
         global_context |-> st.global_context,
         should_start_next_step |-> st.should_start_next_step]

Store(p, s) ==
    /\ sessions' = [sessions EXCEPT ![p] =
          [plan |-> s.plan,
           current_step_idx |-> s.current_step_idx,
           step_execution_status |-> s.step_execution_status,
           current_step_agent_response_count |-> s.current_step_agent_response_count,
           step_evidence |-> s.step_evidence,
           global_context |-> s.global_context,
           should_start_next_step |-> s.should_start_next_step]]
    /\ controllers' = [controllers EXCEPT ![execution_controller_of(p)] =
          [execution_history |-> s.execution_history, step_attempts |-> s.step_attempts]]

\* an approving and a rejecting response of each agent
SessionResponses(agent) ==
    CASE agent = "web_surfer" -> {WebDone, WebGeneric}
      [] agent = "image_generator" -> {ImageDone, ImageFailed}
      [] OTHER -> {DocDone, DocPlanning}

StartStepOf(p) ==
    /\ can_start_next_step(SessionOf(p))
    /\ Store(p, start_next_step(SessionOf(p)))
    /\ UNCHANGED <<plan, progress, callers, last_eval, allocation, units>>

\* one step execution of plan p: dispatch, collect, evaluate
RunStepOf(p) ==
    LET s == SessionOf(p)
        idx == s.current_step_idx
    IN  /\ idx < NumSteps
        /\ s.step_execution_status[idx] = "in_progress"
        /\ \E agent_response \in SessionResponses(s.plan[idx].agent_name),
                 policy \in FailurePolicies :
              Store(p, process_agent_response(s, idx, agent_response, policy).session)
        /\ UNCHANGED <<plan, progress, callers, last_eval, allocation, units>>

InitPlans ==
    /\ plan = PlanPrefix(CameraPlan)
    /\ current_step_idx = 0
    /\ step_execution_status = [i \in StepIdx |-> "not_started"]
    /\ step_attempts = [id \in AllStepIds |-> 0]
    /\ execution_history = << >>
    /\ current_step_agent_response_count = 0
    /\ step_evidence = [i \in StepIdx |-> NoEvidence]
    /\ global_context = [i \in StepIdx |-> NoContext]
    /\ should_start_next_step = TRUE
    /\ pc = [c \in Callers |-> "idle"]
    /\ given = [c \in Callers |-> 0]
    /\ last_return = NoReturn
    /\ last_eval = NoEval
    /\ step_text = NoText
    /\ allocated_agent = "none"
    /\ \E f \in [PlanIds -> Plans] : sessions = [p \in PlanIds |-> NewState(f[p])]
    /\ controllers = [k \in PlanIds |-> NewController]
    /\ NoMonitors
    /\ NoComponents
    /\ NothingChecked

NextPlans ==
    \/ \E p \in PlanIds : StartStepOf(p)
    \/ \E p \in PlanIds : RunStepOf(p)

SpecPlans == InitPlans /\ [][NextPlans]_vars

(***************************************************************************)
(* Agent allocation on its own: every step text, one allocation            *)
(***************************************************************************)
InitAlloc ==
    /\ plan = PlanPrefix(CameraPlan)
    /\ current_step_idx = 0
    /\ step_execution_status = [i \in StepIdx |-> "not_started"]
    /\ step_attempts = [id \in AllStepIds |-> 0]
    /\ execution_history = << >>
    /\ current_step_agent_response_count = 0
    /\ step_evidence = [i \in StepIdx |-> NoEvidence]
    /\ global_context = [i \in StepIdx |-> NoContext]
    /\ should_start_next_step = TRUE
    /\ pc = [c \in Callers |-> "idle"]
    /\ given = [c \in Callers |-> 0]
    /\ last_return = NoReturn
    /\ last_eval = NoEval
    /\ step_text \in [title : SUBSET TitleWords, details : SUBSET DetailWords]
    /\ allocated_agent = "none"
    /\ NoOtherPlans
    /\ NoMonitors
    /\ NoComponents
    /\ NothingChecked

Allocate ==
    /\ allocated_agent = "none"
    /\ allocated_agent' = allocate_agent(step_text.title, step_text.details)
    /\ UNCHANGED <<plan, progress, callers, last_eval, step_text, host, units>>

NextAlloc == Allocate

SpecAlloc == InitAlloc /\ [][NextAlloc]_vars

(***************************************************************************)
(* The boundary controller on its own: setup_boundaries called for any     *)
(* task type and step, any number of times                                 *)
(***************************************************************************)
\* setup_boundaries once _identify_task_type has named the type: the entry
\* of the type or the default entry becomes the settings, and a monitor with
\* these settings is started for the step
SetupBoundaries ==
    \E task_type \in TaskTypes, step_index \in StepIdx :
        LET settings == task_boundaries(task_type)
        IN  /\ boundary' = [task_type |-> task_type, step_index |-> step_index,
                            settings |-> settings]
            /\ monitors' = [monitors EXCEPT ![step_index] = BoundaryMonitor(settings)]
            /\ UNCHANGED <<plan, progress, callers, last_eval, allocation, host, checked,
                           window, components>>

NextBoundary == SetupBoundaries

SpecBoundary == InitFlow /\ [][NextBoundary]_vars

(***************************************************************************)
(* The completion check on its own: any response of any agent checked for  *)
(* any step, with or without the agent passed to the check                 *)
(***************************************************************************)
InitValidate ==
    /\ plan = PlanPrefix(CameraPlan)
    /\ current_step_idx = 0
    /\ step_execution_status = [i \in StepIdx |-> "not_started"]
    /\ step_attempts = [id \in AllStepIds |-> 0]
    /\ execution_history = << >>
    /\ current_step_agent_response_count = 0
    /\ step_evidence = [i \in StepIdx |-> NoEvidence]
    /\ global_context = [i \in StepIdx |-> NoContext]
    /\ should_start_next_step = TRUE
    /\ pc = [c \in Callers |-> "idle"]
    /\ given = [c \in Callers |-> 0]
    /\ last_return = NoReturn
    /\ last_eval = NoEval
    /\ step_text = NoText
    /\ allocated_agent = "none"
    /\ NoOtherPlans
    /\ NoMonitors
    /\ NoComponents
    /\ checked \in CheckInputs

CheckCompletion ==
    /\ ~checked.done
    /\ checked' =
          [checked EXCEPT
             !.done = TRUE,
             !.complete = _is_step_truly_complete(checked.step, checked.response,
                                                  checked.actual_agent),
             !.validation = validate_completion(checked.step, checked.response)]
    /\ UNCHANGED <<plan, progress, callers, last_eval, allocation, host, boundary,
                   monitors, window, components>>

NextValidate == CheckCompletion

SpecValidate == InitValidate /\ [][NextValidate]_vars

(***************************************************************************)
(* The AgentStateBus on its own: outputs are registered for any agent and  *)
(* step, the previous outputs are asked for at any step                    *)
(***************************************************************************)
RegisterOutput ==
    /\ bus.registered < MaxRegistered
    /\ \E agent_name \in SystemAgents, step_idx \in StepIdx, output \in Outputs :
          bus' = [bus EXCEPT
                    !.agent_outputs = register_output(@, agent_name, step_idx, output),
                    !.registered = @ + 1]
    /\ UNCHANGED <<core, context_manager, indicator, enhanced_indicator, reconnect, file_manager>>

GetPreviousOutputs ==
    /\ \E current_step \in 0 .. NumSteps :
          LET r == get_previous_outputs(bus.agent_outputs, current_step)
          IN  bus' = [bus EXCEPT !.returned = [called |-> TRUE, current_step |-> current_step,
                                                raised |-> r.raised, outputs |-> r.outputs]]
    /\ UNCHANGED <<core, context_manager, indicator, enhanced_indicator, reconnect, file_manager>>

NextBus ==
    \/ RegisterOutput
    \/ GetPreviousOutputs

SpecBus == InitFlow /\ [][NextBus]_vars

(***************************************************************************)
(* The context manager on its own: the snapshot of a step is added when    *)
(* the step is done, the context of a step is asked for with any budget    *)
(***************************************************************************)
AddSnapshot ==
    /\ \E i \in StepIdx, size \in EntrySizes :
          /\ \A e \in context_manager.entries : e.step # i
          /\ context_manager' =
                [context_manager EXCEPT !.entries = @ \cup {[step |-> i, size |-> size]}]
    /\ UNCHANGED <<core, bus, indicator, enhanced_indicator, reconnect, file_manager>>

GetRelevantContext ==
    /\ \E step_index \in StepIdx, max_tokens \in Budgets :
          LET r == get_relevant_context(context_manager.cache, context_manager.entries,
                                        step_index, max_tokens)
          IN  context_manager' =
                [context_manager EXCEPT
                   !.cache = r.cache,
                   !.returned = [called |-> TRUE, step_index |-> step_index,
                                 max_tokens |-> max_tokens, raised |-> r.raised,
                                 cached |-> r.cached, content |-> r.content,
                                 prior |-> r.prior]]
    /\ UNCHANGED <<core, bus, indicator, enhanced_indicator, reconnect, file_manager>>

NextContext ==
    \/ AddSnapshot
    \/ GetRelevantContext

SpecContext == InitFlow /\ [][NextContext]_vars

(***************************************************************************)
(* The BackgroundTaskIndicator on its own: the parent passes new runs, the *)
(* effect of the render and the 30-second interval run the detection       *)
(***************************************************************************)
\* the parent renders the component with another runs list
SetRuns ==
    /\ \E runs \in RunLists \ {indicator.runs} :
          indicator' = [indicator EXCEPT !.runs = runs, !.effect_pending = TRUE]
    /\ UNCHANGED <<core, bus, context_manager, enhanced_indicator, reconnect, file_manager>>

\* the effect of the render runs (the interval of the render before is
\* cleared, the detection runs and a new interval is set), or the interval
\* of the last effect fires and runs the detection for the runs of its render
DetectBackgroundTasks ==
    /\ \E from_effect \in BOOLEAN :
          IF from_effect
          THEN /\ indicator.effect_pending
               /\ indicator' = [indicator EXCEPT
                                   !.backgroundTasks = detectBackgroundTasks(indicator.runs),
                                   !.effect_pending = FALSE,
                                   !.interval = TRUE]
          ELSE /\ indicator.interval
               /\ ~indicator.effect_pending
               /\ indicator' = [indicator EXCEPT
                                   !.backgroundTasks = detectBackgroundTasks(indicator.runs)]
    /\ UNCHANGED <<core, bus, context_manager, enhanced_indicator, reconnect, file_manager>>

NextIndicator ==
    \/ SetRuns
    \/ DetectBackgroundTasks

SpecIndicator == InitFlow /\ [][NextIndicator]_vars

(***************************************************************************)
(* The BackgroundTaskIndicator with health checks on its own               *)
(***************************************************************************)
SetCheckedRuns ==
    /\ \E runs \in CheckedRunLists \ {enhanced_indicator.runs} :
          enhanced_indicator' =
              [enhanced_indicator EXCEPT !.runs = runs, !.effect_pending = TRUE]
    /\ UNCHANGED <<core, bus, context_manager, indicator, reconnect, file_manager>>

\* the effect of the render or the interval of the last effect calls
\* detectBackgroundTasks: it runs up to its first await; with no active run
\* there is none and the empty list is set at once
StartDetection ==
    /\ Cardinality(enhanced_indicator.passes) < MaxPasses
    /\ \E from_effect \in BOOLEAN :
          /\ IF from_effect
             THEN enhanced_indicator.effect_pending
             ELSE enhanced_indicator.interval /\ ~enhanced_indicator.effect_pending
          /\ LET runs == enhanced_indicator.runs
                 activeTasks == SelectSeq(runs, IsActiveTask)
             IN  enhanced_indicator' =
                   [enhanced_indicator EXCEPT
                      !.effect_pending = FALSE,
                      !.interval = TRUE,
                      !.passes = IF activeTasks = << >> THEN @ ELSE @ \cup {NewPass(runs)},
                      !.backgroundTasks = IF activeTasks = << >> THEN << >> ELSE @,
                      !.set_by = IF activeTasks = << >>
                                 THEN [activeTasks |-> << >>, checks |-> << >>]
                                 ELSE @]
    /\ UNCHANGED <<core, bus, context_manager, indicator, reconnect, file_manager>>

\* the health check a pass awaits returns or throws: the run is added to
\* the list of the pass, and after the last run the list is set
HealthCheckReturns ==
    /\ \E pass \in enhanced_indicator.passes, health \in HealthOutcomes :
          LET activeTasks == SelectSeq(pass.runs, IsActiveTask)
              run == activeTasks[pass.at]
              enhancedTasks == enhanceTask(pass.enhancedTasks, run, health)
              next == [pass EXCEPT !.enhancedTasks = enhancedTasks,
                                   !.checks = Append(@, health),
                                   !.at = @ + 1]
          IN  IF pass.at < Len(activeTasks)
              THEN enhanced_indicator' =
                     [enhanced_indicator EXCEPT
                        !.passes = (@ \ {pass}) \cup {next}]
              ELSE enhanced_indicator' =
                     [enhanced_indicator EXCEPT
                        !.passes = @ \ {pass},
                        !.backgroundTasks = enhancedTasks,
                        !.set_by = [activeTasks |-> activeTasks, checks |-> next.checks]]
    /\ UNCHANGED <<core, bus, context_manager, indicator, reconnect, file_manager>>

NextHealth ==
    \/ SetCheckedRuns
    \/ StartDetection
    \/ HealthCheckReturns

\* the components of the interface read no plan: one plan is enough
InitHealth ==
    /\ InitFlow
    /\ plan = PlanPrefix(CameraPlan)

SpecHealth == InitHealth /\ [][NextHealth]_vars

(***************************************************************************)
(* The reconnect buttons on their own                                      *)
(***************************************************************************)
\* a press of a reconnect button of the task; onReconnect returns or throws
HandleManualReconnect(taskId) ==
    /\ reconnect.timers[taskId] < MaxTimers
    /\ \E thrown \in BOOLEAN :
          LET added == addReconnecting(reconnect.reconnectingTasks, taskId)
          IN  IF thrown
              THEN reconnect' =
                     [reconnect EXCEPT
                        !.reconnectingTasks = deleteReconnecting(added, taskId),
                        !.last = [op |-> "error", taskId |-> taskId]]
              ELSE reconnect' =
                     [reconnect EXCEPT
                        !.reconnectingTasks = added,
                        !.timers[taskId] = @ + 1,
                        !.last = [op |-> "press", taskId |-> taskId]]
    /\ UNCHANGED <<core, bus, context_manager, indicator, enhanced_indicator, file_manager>>

\* the callback of a setTimeout(..., 3000) runs
TimerFires(taskId) ==
    /\ reconnect.timers[taskId] > 0
    /\ reconnect' =
          [reconnect EXCEPT
             !.reconnectingTasks = deleteReconnecting(@, taskId),
             !.timers[taskId] = @ - 1,
             !.last = [op |-> "timer", taskId |-> taskId]]
    /\ UNCHANGED <<core, bus, context_manager, indicator, enhanced_indicator, file_manager>>

NextReconnect ==
    \/ \E taskId \in TaskIds : HandleManualReconnect(taskId)
    \/ \E taskId \in TaskIds : TimerFires(taskId)

\* a timeout that was set runs
SpecReconnect ==
    /\ InitHealth
    /\ [][NextReconnect]_vars
    /\ \A taskId \in TaskIds : WF_vars(TimerFires(taskId))

(***************************************************************************)
(* The FileManager on its own                                              *)
(***************************************************************************)
CanFetch(kind) == file_manager.requests[kind] < MaxRequests

\* the effect on visible and session.id
ShowSession ==
    /\ CanFetch("files")
    /\ CanFetch("stats")
    /\ file_manager' = loadStats(loadFiles(file_manager))
    /\ UNCHANGED <<core, bus, context_manager, indicator, enhanced_indicator, reconnect>>

\* the refresh button, which shows the loading flag and takes no click
\* while it is set
Refresh ==
    /\ ~file_manager.loading
    /\ CanFetch("files")
    /\ file_manager' = loadFiles(file_manager)
    /\ UNCHANGED <<core, bus, context_manager, indicator, enhanced_indicator, reconnect>>

\* the package button, which shows the loading flag as well:
\* downloadDeliverablePackage up to its fetch
DownloadDeliverablePackage ==
    /\ ~file_manager.loading
    /\ CanFetch("package")
    /\ file_manager' =
          [file_manager EXCEPT !.loading = TRUE, !.requests["package"] = @ + 1]
    /\ UNCHANGED <<core, bus, context_manager, indicator, enhanced_indicator, reconnect>>

\* the star button of a row of the table, which shows the loading flag:
\* markAsDeliverable up to its fetch
MarkAsDeliverable ==
    /\ ~file_manager.loading
    /\ CanFetch("mark")
    /\ file_manager' = [file_manager EXCEPT !.requests["mark"] = @ + 1]
    /\ UNCHANGED <<core, bus, context_manager, indicator, enhanced_indicator, reconnect>>

Ended(fm, kind, outcome) ==
    [fm EXCEPT !.requests[kind] = @ - 1,
               !.last = [kind |-> kind, outcome |-> outcome]]

\* loadFiles from its fetch on, the finally included
FilesReturn ==
    /\ file_manager.requests["files"] > 0
    /\ \E outcome \in FetchOutcomes, data \in Listings :
          file_manager' =
              [Ended(file_manager, "files", outcome) EXCEPT
                 !.files = filesAfter(@, outcome, data),
                 !.loading = FALSE]
    /\ UNCHANGED <<core, bus, context_manager, indicator, enhanced_indicator, reconnect>>

\* loadStats from its fetch on
StatsReturn ==
    /\ file_manager.requests["stats"] > 0
    /\ \E outcome \in FetchOutcomes :
          file_manager' =
              [Ended(file_manager, "stats", outcome) EXCEPT
                 !.stats = statsAfter(@, outcome)]
    /\ UNCHANGED <<core, bus, context_manager, indicator, enhanced_indicator, reconnect>>

\* downloadDeliverablePackage from its fetch on, the finally included
PackageReturns ==
    /\ file_manager.requests["package"] > 0
    /\ \E outcome \in FetchOutcomes :
          file_manager' =
              [Ended(file_manager, "package", outcome) EXCEPT !.loading = FALSE]
    /\ UNCHANGED <<core, bus, context_manager, indicator, enhanced_indicator, reconnect>>

\* markAsDeliverable from its fetch on: an ok response reloads the list
\* and the statistics
MarkReturns ==
    /\ file_manager.requests["mark"] > 0
    /\ \E outcome \in FetchOutcomes :
          IF outcome = "ok"
          THEN /\ CanFetch("files")
               /\ CanFetch("stats")
               /\ file_manager' =
                     loadStats(loadFiles(Ended(file_manager, "mark", outcome)))
          ELSE file_manager' = Ended(file_manager, "mark", outcome)
    /\ UNCHANGED <<core, bus, context_manager, indicator, enhanced_indicator, reconnect>>

NextFiles ==
    \/ ShowSession
    \/ Refresh
    \/ DownloadDeliverablePackage
    \/ MarkAsDeliverable
    \/ FilesReturn
    \/ StatsReturn
    \/ PackageReturns
    \/ MarkReturns

SpecFiles == InitHealth /\ [][NextFiles]_vars

(***************************************************************************)
(* The loop detection on its own: the responses of a step are counted, the *)
(* count starts again with the next step                                   *)
(***************************************************************************)
\* a response of the current step arrives, with or without anything new:
\* it is counted and the count decides
CountResponse ==
    /\ ~window.loop
    /\ \E new_progress \in BOOLEAN :
          LET count == window.count + 1
          IN  window' = [window EXCEPT !.progress = Append(@, new_progress),
                                       !.count = count,
                                       !.loop = (count >= LoopWindow)]
    /\ UNCHANGED <<plan, progress, callers, last_eval, allocation, host, boundary,
                   monitors, checked, components>>

\* the response was rejected and the step is tried again: the count goes on
RetryAttempt ==
    /\ ~window.loop
    /\ window.attempt_from <= Len(window.progress)
    /\ window' = [window EXCEPT !.attempt_from = Len(window.progress) + 1]
    /\ UNCHANGED <<plan, progress, callers, last_eval, allocation, host, boundary,
                   monitors, checked, components>>

\* the next step starts: the count starts at 0
RestartCount ==
    /\ window # NoWindow
    /\ window' = NoWindow
    /\ UNCHANGED <<plan, progress, callers, last_eval, allocation, host, boundary,
                   monitors, checked, components>>

NextWindow ==
    \/ CountResponse
    \/ RetryAttempt
    \/ RestartCount

SpecWindow == InitFlow /\ [][NextWindow]_vars

(***************************************************************************)
(* Properties                                                              *)
(***************************************************************************)
Advanced == {"completed", "skipped"}

\* the steps that enter one of the given statuses in a transition
Entering(statuses) ==
    {i \in StepIdx : step_execution_status[i] \notin statuses
                     /\ step_execution_status'[i] \in statuses}

IndexFollows(statuses) ==
    /\ current_step_idx' >= current_step_idx
    /\ current_step_idx' <= current_step_idx + 1
    /\ current_step_idx' - current_step_idx = Cardinality(Entering(statuses))
    /\ current_step_idx' = current_step_idx + 1 => Entering(statuses) = {current_step_idx}

C2_EvidenceOfOwnStep ==
    \A i \in StepIdx :
        step_evidence[i] # NoEvidence => step_evidence[i].dispatched_for = i

C2_Witness ==
    /\ current_step_idx >= 2
    /\ step_execution_status[0] = "completed"
    /\ step_execution_status[1] = "completed"
    /\ step_evidence[1].completion_type = "normal"

\* C3: when two callers work on the same step only one advancement commits:
\* the index is the number of steps left behind, exactly the steps below the
\* index are completed or skipped, and none of them was completed by a
\* response of another step.
C3_OneAdvancementPerStep ==
    /\ \A j \in StepIdx :
          j < current_step_idx <=> step_execution_status[j] \in Advanced
    /\ \A j \in StepIdx :
          step_execution_status[j] = "completed" => step_evidence[j].dispatched_for = j

\* a caller is still waiting for the agent on a step that the other caller
\* has already advanced
C3_Witness ==
    \E c \in Callers : pc[c] = "awaiting" /\ given[c] < current_step_idx

\* C4: a call that returns for a step the index has already passed returns
\* Advance and changes nothing of the plan's progress, however often it is
\* repeated.
C4_AdvancedStepIsNoOp ==
    [][(last_return' # last_return /\ last_return'.step < current_step_idx)
          => (last_return'.action = "Advance" /\ UNCHANGED progress)]_vars

C4_Witness ==
    /\ last_return.noop_calls = 2
    /\ last_return.action = "Advance"
    /\ step_execution_status[last_return.step] = "completed"

NewlyCompleted(i) ==
    step_execution_status[i] # "completed" /\ step_execution_status'[i] = "completed"

InProgress == {i \in StepIdx : step_execution_status[i] = "in_progress"}

\* the plan has started, is not finished and no step is waiting for a human
PlanActive ==
    /\ step_execution_status[0] # "not_started"
    /\ current_step_idx < NumSteps
    /\ \A i \in StepIdx : step_execution_status[i] # "failed"

\* C6 as stated: in an active plan exactly one record is in_progress, the
\* record of step current_step_idx.
C6_ExactlyOneInProgress ==
    PlanActive => InProgress = {current_step_idx}

\* C6 amended: at most one record is in_progress and it is the record of step
\* current_step_idx; in an active plan it is missing only between the
\* advancement of a step and the start of the next one by the main loop.
C6_AtMostOneInProgress ==
    /\ InProgress \subseteq {current_step_idx}
    /\ (PlanActive /\ ~should_start_next_step) => InProgress = {current_step_idx}

C6_Witness ==
    /\ current_step_idx = 1
    /\ step_execution_status[0] \in Advanced
    /\ InProgress = {1}

LastRecorded == execution_history[Len(execution_history)]

RecordedTwice ==
    /\ last_eval.step # -1
    /\ Occurrences(execution_history, LastRecorded.step_id, LastRecorded.response) >= 2

GenericPatterns == {"i_understand_you_need", "let_me_help_you", "i_can_help_you", "let_me_create"}

\* C9: the validator rejects a response that is shorter than the minimum
\* length or matches a generic pattern, whatever else the response contains.
C9_ShortOrGenericRejected ==
    (last_eval.validated
       /\ (last_eval.response.length < MinLength \/ Has(last_eval.response, GenericPatterns)))
    => ~last_eval.approved

ImageTrigger(words) == {"generate", "image"} \subseteq words \/ {"zh_generate", "zh_image"} \subseteq words

\* C10: a step whose title or details contain the image-generation trigger is
\* allocated to image_generator, whatever else the text contains.
C10_ImageTriggerRoutesToImageGenerator ==
    (allocated_agent # "none" /\ (ImageTrigger(step_text.title) \/ ImageTrigger(step_text.details)))
    => allocated_agent = "image_generator"

\* a response was collected and evaluated in this step
Evaluated == execution_history' # execution_history

\* the evaluation ended in a rejection by the validator, without loop
Rejected == Evaluated /\ last_eval'.validated /\ ~last_eval'.approved

\* C11: RetryStep is returned on a rejection only while attempts are left, so
\* a step is retried fewer than MaxAttempts times; the rejection that finds no
\* attempt left sets the step to failed and returns EscalateToHuman or
\* AbortPlan, as the policy has it, never
\* RetryStep.
C11_RetriesBounded ==
    [][Rejected =>
         LET i == last_eval'.step
             attempts == step_attempts'[StepId(plan[i])]
         IN  /\ last_return'.action = "RetryStep" =>
                   /\ attempts < MaxAttempts
                   /\ current_step_agent_response_count' < MaxAttempts
             /\ attempts >= MaxAttempts =>
                   /\ step_execution_status'[i] = "failed"
                   /\ last_return'.action \in FailurePolicies]_vars

\* a step failed on its third rejection, after two retries
C11_Witness ==
    /\ last_return.action = "EscalateToHuman"
    /\ last_eval.outcome = "failed"
    /\ step_execution_status[last_eval.step] = "failed"
    /\ current_step_agent_response_count = MaxAttempts

StatusTransitions ==
    {<<"not_started", "in_progress">>, <<"in_progress", "completed">>,
     <<"in_progress", "failed">>, <<"in_progress", "skipped">>}

\* C12: every status change of a step follows not_started -> in_progress ->
\* {completed, failed, skipped}: not_started never goes directly to a terminal
\* status, completed and skipped are never left, and no step of the step
\* execution (a retry or a new call included) takes failed back to in_progress.
C12_StatusStateMachine ==
    [][\A i \in StepIdx :
          step_execution_status'[i] # step_execution_status[i] =>
             <<step_execution_status[i], step_execution_status'[i]>> \in StatusTransitions]_vars

\* a step was called again after it failed, and it is still failed
C12_Witness ==
    /\ last_return.noop_calls >= 1
    /\ last_return.action = "EscalateToHuman"
    /\ step_execution_status[last_return.step] = "failed"
    /\ \E i \in StepIdx : step_execution_status[i] = "completed"

\* help-offer phrasing: the generic_responses of the validator
DeflectionPatterns == {"i_understand_you_need", "let_me_help_you", "i_can_help_you"}

\* C13: when the response collected for the current step is a generic
\* deflection, no loop is detected and attempts remain, the step execution
\* returns RetryStep, the attempt count of the step goes up by one, the status
\* stays in_progress and current_step_idx is unchanged.
C13_GenericDeflectionRetried ==
    [][LET i == last_eval'.step
           step_id == StepId(plan[i])
       IN  (/\ Evaluated
            /\ Has(last_eval'.response, DeflectionPatterns)
            /\ ~last_eval'.loop
            /\ step_attempts[step_id] + 1 < MaxAttempts)
           => /\ last_return'.action = "RetryStep"
              /\ step_attempts'[step_id] = step_attempts[step_id] + 1
              /\ step_execution_status'[i] = "in_progress"
              /\ current_step_idx' = current_step_idx]_vars

\* the evaluation found the response repeated
LoopHandled == Evaluated /\ last_eval'.loop

LoopAdvances ==
    /\ last_return'.action = "Advance"
    /\ current_step_idx' = current_step_idx + 1

CancelledNow ==
    \E c \in Callers : pc[c] = "awaiting" /\ pc'[c] # "awaiting"
                       /\ last_return'.action = "Cancelled"

\* C15: when the dispatch is cancelled while a step is in flight, the worker
\* call ends with it (nothing is awaited any more), the record of the step
\* stays in_progress with the cancellation noted in its evidence,
\* current_step_idx is unchanged, and the cancelled call marks no step
\* completed.
C15_CancellationLeavesInProgress ==
    [][CancelledNow =>
         LET i == last_return'.step
         IN  /\ \A c \in Callers : pc'[c] # "awaiting"
             /\ step_execution_status[i] = "in_progress"
             /\ step_execution_status' = step_execution_status
             /\ step_evidence'[i].completion_type = "cancelled"
             /\ step_evidence'[i].dispatched_for = i
             /\ current_step_idx' = current_step_idx
             /\ global_context' = global_context]_vars

\* a step was cancelled after a first rejected response and is still the
\* current step in progress
C15_Witness ==
    /\ last_return.action = "Cancelled"
    /\ step_evidence[current_step_idx].completion_type = "cancelled"
    /\ step_execution_status[current_step_idx] = "in_progress"
    /\ current_step_agent_response_count = 1
    /\ current_step_idx = 1

\* the time budget of the step in flight expires in this step
ExpiredNow == last_eval' # last_eval /\ last_eval'.outcome = "expired"

ExpiryIsNoError ==
    /\ step_execution_status'[last_eval'.step] # "failed"
    /\ last_return'.action \notin {"EscalateToHuman", "AbortPlan", "RetryStep"}

MaxActionsOf(step_info) == task_boundaries(_identify_task_type(step_info)).max_actions

Terminal == {"completed", "failed", "skipped"}

\* caller c dispatches a step to its agent in this step
Dispatched(c) == pc[c] = "idle" /\ pc'[c] = "awaiting"

\* C18: the steps of a plan are dispatched in index order, one at a time: a
\* step is dispatched, and started, only when it is the current step and every
\* step before it has reached a terminal status while no later step has
\* started; and a step becomes completed only by the evaluation of a response
\* that was dispatched for it and collected after it started, which is then
\* its evidence.
C18_StepsInOrder ==
    [][/\ \A c \in Callers :
             Dispatched(c) =>
                /\ given'[c] = current_step_idx
                /\ step_execution_status[given'[c]] = "in_progress"
                /\ \A j \in StepIdx : j < given'[c] => step_execution_status[j] \in Terminal
                /\ \A j \in StepIdx : j > given'[c] => step_execution_status[j] = "not_started"
       /\ \A i \in StepIdx :
             (step_execution_status[i] = "not_started"
                /\ step_execution_status'[i] # "not_started")
             => \A j \in StepIdx : j < i => step_execution_status[j] \in Terminal
       /\ \A i \in StepIdx :
             NewlyCompleted(i) =>
                /\ \E c \in Callers : pc[c] = "awaiting" /\ given[c] = i /\ pc'[c] = "idle"
                /\ Evaluated
                /\ last_eval'.step = i
                /\ step_evidence'[i].response = last_eval'.response]_vars

\* the whole plan was executed, every step completed on a response of its own
C18_Witness ==
    /\ current_step_idx = NumSteps
    /\ \A i \in StepIdx : /\ step_execution_status[i] = "completed"
                           /\ step_evidence[i].dispatched_for = i
    /\ step_evidence[0].response # step_evidence[1].response

\* an entry is written only when its step completes, and a written entry is
\* never written again
ContextAppendOnly ==
    \A i \in StepIdx :
        global_context'[i] # global_context[i] =>
           /\ global_context[i] = NoContext
           /\ NewlyCompleted(i)
           /\ global_context'[i].response = step_evidence'[i].response

C19_PlansIsolated ==
    [][\A p, q \in PlanIds :
          (p # q /\ SessionOf(p)' # SessionOf(p)) => SessionOf(q)' = SessionOf(q)]_vars

\* both plans have advanced, on histories of their own
C19_Witness ==
    /\ sessions["A"].current_step_idx >= 1
    /\ sessions["B"].current_step_idx >= 1
    /\ sessions["A"].step_execution_status[0] # sessions["B"].step_execution_status[0]
    /\ Len(controllers["A"].execution_history) >= 2
    /\ Len(controllers["B"].execution_history) >= 1
    /\ controllers["A"].execution_history[1] = controllers["B"].execution_history[1]

\* an evaluation returned AbortPlan in this step
AbortedNow == Evaluated /\ last_return'.action = "AbortPlan"

C22_FailureHasTrail ==
    last_return.action \in FailurePolicies =>
        LET i == last_return.step
            e == step_evidence[i]
        IN  /\ step_execution_status[i] = "failed"
            /\ e # NoEvidence
            /\ e.dispatched_for = i
            /\ e.attempt >= 1
            /\ e.attempt = step_attempts[StepId(plan[i])]
            /\ e.reason # "none"
            /\ e.reason = validate_completion(plan[i], e.response).reason

\* a failed step was called again: the escalation is returned once more and
\* the trail of the third attempt is still in the record
C22_Witness ==
    /\ last_return.action = "EscalateToHuman"
    /\ last_return.noop_calls = 2
    /\ step_evidence[last_return.step].attempt = MaxAttempts
    /\ step_evidence[last_return.step].reason = "generic response"
    /\ last_return.step = 1

\* the task types that have an entry in task_boundaries
Configured == {"web_research", "image_generation", "document_creation", "code_execution",
               "default"}

\* setup_boundaries returned in this step
LimitsReturned == boundary' # boundary \/ monitors' # monitors

\* the settings are those of the type's entry, or of the default entry for a
\* type without one
LimitsLookedUp ==
    LET t == boundary'.task_type
        settings == boundary'.settings
    IN  /\ settings # NoSettings
        /\ settings.max_actions >= 1
        /\ t \in Configured => settings = task_boundaries(t)
        /\ t \notin Configured => settings = task_boundaries("default")
        /\ (t \in Configured /\ t # "default") =>
              settings.time_limit # task_boundaries("default").time_limit

\* C30 as stated: the lookup of the limits is total and pure: a type with an
\* entry gets the max actions, time limit and autonomy setting of its entry,
\* every other type (format_conversion and file_operation among them) gets the
\* default entry, and no state is changed.
C30_LookupIsPure ==
    [][LimitsReturned => (LimitsLookedUp /\ monitors' = monitors)]_vars

\* C30 amended: the lookup of the limits is total: a type with an entry gets
\* the max actions, time limit and autonomy setting of its entry, every other
\* type gets the default entry, and it never fails; each call also starts a
\* fresh monitor with these settings for the step, in place of the monitor
\* the step had, and changes no other state.
C30_LookupStartsMonitor ==
    [][LimitsReturned =>
         /\ LimitsLookedUp
         /\ monitors'[boundary'.step_index] = BoundaryMonitor(boundary'.settings)
         /\ \A i \in StepIdx : i # boundary'.step_index => monitors'[i] = monitors[i]
         /\ UNCHANGED <<plan, progress, callers, last_eval, allocation, host>>]_vars

\* a type without an entry got the default settings for step 1, after step
\* 0 got the entry of code_execution
C30_Witness ==
    /\ boundary.task_type = "format_conversion"
    /\ boundary.step_index = 1
    /\ boundary.settings.max_actions = 3
    /\ boundary.settings.time_limit = 150
    /\ monitors[1] = BoundaryMonitor(boundary.settings)
    /\ monitors[0].settings.max_actions = 5
    /\ ~monitors[0].settings.autonomous_mode

\* the main loop started a step
StepStarted ==
    /\ current_step_idx < NumSteps
    /\ step_execution_status[current_step_idx] = "not_started"
    /\ step_execution_status'[current_step_idx] = "in_progress"

\* a new attempt of the step begins after this evaluation
AttemptEnded == Evaluated /\ last_return'.action = "RetryStep"

\* C28: the accumulated responses and the execution history are emptied at
\* every attempt boundary and at every step start: after a RetryStep and
\* after the start of a step the history is empty, so the repeated-execution
\* check and the validation see entries of the current attempt of the
\* current step only.
C28_HistoryOfCurrentAttemptOnly ==
    [][(StepStarted \/ AttemptEnded) => execution_history' = << >>]_vars

\* what the validators take for useful content of a response
UsefulIndicators ==
    {"product", "camera", "spec", "function", "feature", ".png", ".jpg", ".jpeg", "image",
     "file_name"}

\* the recommendation execute_step gave for the response evaluated in this step
Recommendation ==
    LET step_info == plan[last_eval'.step]
    IN  execute_step(execution_history, step_attempts[StepId(step_info)], step_info,
                     last_eval'.response).result.action

PlanFinished == \A i \in StepIdx : step_execution_status[i] \in {"completed", "skipped"}

\* a step has failed: EscalateToHuman or AbortPlan was returned for it
PlanStopped == \E i \in StepIdx : step_execution_status[i] = "failed"

StepSignals ==
    {"current_step_completed", "image_generation_complete", "document_creation_completed",
     "html_conversion_completed", "pdf_generation_completed"}

\* the signals that close the whole task
TaskSignals == {"TASK_COMPLETED", "TASK_COMPLETED_WITH_ERRORS", "TASK_COMPLETED_VIA_ALTERNATIVE"}

\* a response closed with a step signal, with content for the step and no
\* task signal, was evaluated and was no repetition
StepSignalled ==
    /\ Evaluated
    /\ ~last_eval'.loop
    /\ Has(last_eval'.response, StepSignals)
    /\ ~Has(last_eval'.response, TaskSignals)
    /\ Has(last_eval'.response, UsefulIndicators)

\* C23: a step-specific completion signal completes the current step and
\* only that step: Advance is returned, the index goes up by one and, while
\* steps remain, the next step is the one the main loop starts; the plan is
\* not terminated on it.
C23_StepSignalCompletesStep ==
    [][StepSignalled =>
         LET i == last_eval'.step
         IN  /\ step_execution_status'[i] = "completed"
             /\ \A j \in StepIdx : j # i => step_execution_status'[j] = step_execution_status[j]
             /\ last_return'.action = "Advance"
             /\ current_step_idx' = i + 1
             /\ i + 1 < NumSteps =>
                   /\ should_start_next_step'
                   /\ step_execution_status'[i + 1] = "not_started"]_vars

\* C24: the completion check rejects a response whose originating worker is
\* not the worker assigned to the step, for every response and step: a
\* response produced by another step's worker is never approved.
C24_ForeignResponseRejected ==
    (checked.done /\ checked.origin # checked.step.agent_name) => ~checked.complete

\* the completion signals and the content indicators of a step category
CompletionSignalsOf(validator) ==
    CASE validator = "web_search" -> TaskSignals
      [] validator = "image_generation" ->
            {"image_generation_complete", "successfully_generated", "generation_completed"}
      [] OTHER -> {"document_creation_completed", "TASK_COMPLETED"}

RelevantContentOf(validator) ==
    CASE validator = "web_search" -> {"product", "camera", "spec", "function", "feature"}
      [] validator = "image_generation" -> {".png", ".jpg", ".jpeg", "image"}
      [] validator = "document_creation" -> {"file_name"}
      [] OTHER -> {"file_name", "html", "pdf"}

\* C25: for every step category the validator approves only when both hold,
\* a positive completion signal is present and the content is relevant to
\* the step: a signal without relevant content and relevant content without
\* a signal are rejected.
C25_ApprovalNeedsSignalAndContent ==
    (checked.done /\ checked.validation.success) =>
        LET validator == _get_validator(checked.step)
        IN  /\ Has(checked.response, CompletionSignalsOf(validator))
            /\ Has(checked.response, RelevantContentOf(validator))

\* the responses of the current attempt
CurrentAttempt == SubSeq(window.progress, window.attempt_from, Len(window.progress))

\* none of the last LoopWindow responses of the current attempt brought
\* anything new
WindowWithoutProgress ==
    /\ Len(CurrentAttempt) >= LoopWindow
    /\ \A k \in (Len(CurrentAttempt) - LoopWindow + 1) .. Len(CurrentAttempt) :
          ~CurrentAttempt[k]

\* C27: the window rule flags a loop when the last 5 actions of the current
\* step attempt brought no new progress signal and does not flag one while
\* any of the last 5 brought progress; actions of earlier steps or earlier
\* attempts are not counted.
C27_WindowRule == window.loop <=> WindowWithoutProgress

\* the words the rules and the scores of allocate_agent look for
AllocationKeywords ==
    UNION {agent_capabilities(AgentOrder[k]).keywords \cup agent_capabilities(AgentOrder[k]).primary :
              k \in 1 .. 3}
    \cup {"zh_generate", "zh_create", "zh_draw", "zh_image", "CG", "image",
          "zh_visit", "zh_search", "te720", "zh_website", "markdown", "html", "pdf",
          "zh_convert"}

\* no keyword rule matches the title and the instruction of the step
NoRuleMatches == (step_text.title \cup step_text.details) \cap AllocationKeywords = {}

\* C32: when no keyword rule matches a step's title and instruction, the
\* allocation returns web_surfer, the default worker.
C32_DefaultIsWebSurfer ==
    (allocated_agent # "none" /\ NoRuleMatches) => allocated_agent = "web_surfer"

\* get_previous_outputs returned in this step
PreviousOutputsReturned ==
    /\ bus'.agent_outputs = bus.agent_outputs
    /\ bus'.returned # bus.returned

\* C39: after any sequence of register_output calls, get_previous_outputs
\* returns exactly the registered outputs whose step index is lower than
\* current_step, for the agent names of the system, and never fails.
C39_PreviousOutputsExact ==
    [][PreviousOutputsReturned =>
         /\ ~bus'.returned.raised
         /\ bus'.returned.outputs =
               {e \in bus.agent_outputs : e.step_idx < bus'.returned.current_step}]_vars

\* get_relevant_context returned a context in this step
ContextReturned ==
    /\ context_manager'.entries = context_manager.entries
    /\ context_manager'.returned # context_manager.returned
    /\ ~context_manager'.returned.raised

\* the scores of the entries of a content do not go up along it
ScoresNonIncreasing(content, step_index) ==
    \A k \in 1 .. (Len(content) - 1) :
        score_relevance(content[k + 1], step_index) <= score_relevance(content[k], step_index)

\* C31: get_relevant_context returns a context whose size never exceeds the
\* budget, built only from snapshot entries of steps with a lower index,
\* taken in non-increasing order of relevance; a cached result of a step is
\* never returned after the set of prior entries has changed.
C31_ContextWithinBudget ==
    [][ContextReturned =>
         LET r == context_manager'.returned
         IN  /\ TotalSize(r.content) <= r.max_tokens
             /\ \A k \in 1 .. Len(r.content) :
                   /\ r.content[k] \in context_manager.entries
                   /\ r.content[k].step < r.step_index
             /\ ScoresNonIncreasing(r.content, r.step_index)
             /\ r.cached => r.prior = _collect_all_context(context_manager.entries,
                                                            r.step_index)]_vars

RECURSIVE ShownRuns(_)
\* the runs of a list that are to be shown, in the order of the list
ShownRuns(runs) ==
    IF runs = << >>
    THEN << >>
    ELSE IF Head(runs).status = "active" \/ Head(runs).status = "awaiting_input"
            \/ Head(runs).status = "paused"
         THEN <<Head(runs)>> \o ShownRuns(Tail(runs))
         ELSE ShownRuns(Tail(runs))

\* C33: after the detection effect has run for a runs list, the background
\* tasks displayed are exactly the runs whose status is active,
\* awaiting_input or paused, one entry per run with the id and the status
\* of the run, and the indicator renders nothing exactly when there is no
\* such run.
C33_TasksAreActiveRuns ==
    ~indicator.effect_pending =>
        LET shown == ShownRuns(indicator.runs)
            tasks == indicator.backgroundTasks
        IN  /\ Len(tasks) = Len(shown)
            /\ \A k \in 1 .. Len(shown) :
                  /\ str(tasks[k].runId) = shown[k].id
                  /\ tasks[k].status = shown[k].status
            /\ Render(tasks) = "null" <=> shown = << >>

\* two runs, a paused one and a finished one: the paused run is the one task
\* shown
C33_Witness ==
    /\ ~indicator.effect_pending
    /\ Len(indicator.runs) = 2
    /\ indicator.runs[1].status = "complete"
    /\ indicator.runs[2].status = "paused"
    /\ Len(indicator.backgroundTasks) = 1
    /\ indicator.backgroundTasks[1].runId = 2
    /\ Render(indicator.backgroundTasks) = "indicator"

\* no detection is due and none is in flight
DetectionSettled ==
    /\ ~enhanced_indicator.effect_pending
    /\ enhanced_indicator.passes = {}

\* C34: when the runs prop changes while an earlier detection pass is still
\* awaiting health checks, the task list finally displayed is the one
\* computed from the latest runs: once every pass has ended, the list shown
\* holds the active runs of the current runs, not those of an older value.
C34_LatestRunsShown ==
    DetectionSettled =>
        LET shown == enhanced_indicator.backgroundTasks
        IN  [k \in 1 .. Len(shown) |->
                [runId |-> shown[k].runId, status |-> shown[k].status,
                 progressInfo |-> shown[k].progressInfo]]
            = detectBackgroundTasks(enhanced_indicator.runs)

\* C35: a run whose health check failed is still listed, with its status
\* and description and with isReconnectable, hasActiveManager,
\* hasWebSocketConnection and canReconnect all false; the other runs of the
\* pass are listed with the flags of their own health data.
C35_FailedCheckStillListed ==
    LET shown == enhanced_indicator.backgroundTasks
        by == enhanced_indicator.set_by
    IN  /\ Len(shown) = Len(by.activeTasks)
        /\ Len(shown) = Len(by.checks)
        /\ \A k \in 1 .. Len(shown) :
             /\ shown[k].runId = parseInt(by.activeTasks[k].id)
             /\ shown[k].status = by.activeTasks[k].status
             /\ shown[k].progressInfo = getProgressInfo(by.activeTasks[k])
             /\ IF by.checks[k].ok
                THEN /\ shown[k].isReconnectable = by.checks[k].data.is_reconnectable
                     /\ shown[k].hasActiveManager = by.checks[k].data.has_active_manager
                     /\ shown[k].hasWebSocketConnection = by.checks[k].data.has_websocket_connection
                     /\ shown[k].canReconnect = by.checks[k].data.can_reconnect
                ELSE /\ ~shown[k].isReconnectable
                     /\ ~shown[k].hasActiveManager
                     /\ ~shown[k].hasWebSocketConnection
                     /\ ~shown[k].canReconnect

\* a list of two runs is displayed, the check of the first failed and the
\* second is reconnectable
C35_Witness ==
    LET by == enhanced_indicator.set_by
    IN  /\ Len(enhanced_indicator.backgroundTasks) = 2
        /\ Len(by.checks) = 2
        /\ ~by.checks[1].ok
        /\ by.checks[2] = [ok |-> TRUE, data |-> Reconnectable]

\* C36: every task id added to reconnectingTasks is eventually removed
\* from it, by the 3-second timer when onReconnect returned or at once when
\* it threw, also when the button of the task is pressed again meanwhile.
C36_ReconnectingEventuallyRemoved ==
    \A taskId \in TaskIds :
        (taskId \in reconnect.reconnectingTasks) ~> (taskId \notin reconnect.reconnectingTasks)

\* the button of task 1 was pressed twice: the first timer has run and
\* removed the id, the second is still to run
C36_Witness ==
    /\ reconnect.last = [op |-> "timer", taskId |-> 1]
    /\ 1 \notin reconnect.reconnectingTasks
    /\ reconnect.timers[1] = 1

\* C37: the loading flag of the FileManager is true whenever a loadFiles or
\* a downloadDeliverablePackage request is in flight, for every
\* interleaving of the two, and false once none is in flight.
C37_LoadingWhileInFlight ==
    file_manager.loading
        = (file_manager.requests["files"] + file_manager.requests["package"] > 0)

FailedOutcomes == {"not_ok", "thrown"}

\* a step in which a fetch of the kind ends without an ok response
FetchFails(kind) ==
    /\ file_manager'.requests[kind] = file_manager.requests[kind] - 1
    /\ file_manager'.last.kind = kind
    /\ file_manager'.last.outcome \in FailedOutcomes

\* C38: when the file-list request fails, by a response that is not ok or
\* by a thrown error, files is left as it was and loading is false after
\* it; when marking a file as deliverable fails, neither the file list nor
\* the statistics are requested again.
C38_FailuresLeaveState ==
    [][/\ FetchFails("files") =>
            /\ file_manager'.files = file_manager.files
            /\ ~file_manager'.loading
       /\ FetchFails("mark") =>
            /\ file_manager'.requests["files"] = file_manager.requests["files"]
            /\ file_manager'.requests["stats"] = file_manager.requests["stats"]
            /\ file_manager'.files = file_manager.files
            /\ file_manager'.stats = file_manager.stats]_vars

\* a file-list request has thrown while two files were listed
C38_Witness ==
    /\ file_manager.last = [kind |-> "files", outcome |-> "thrown"]
    /\ file_manager.files = ReportAndChart
    /\ ~file_manager.loading

====
